---------------------------- MODULE Spec2Model ----------------------------
(***************************************************************************)
(* A model of the workspace synchronisation engine of src/background.js:   *)
(* the persisted store, the debounced reconciliation scheduler, the        *)
(* reconciler and the lifecycle operations, as asynchronous tasks          *)
(* interleaved on one event loop.                                          *)
(*                                                                         *)
(* An async handler is a task that advances from one await to the next;    *)
(* each action below is the synchronous code between two awaits.  The      *)
(* platform answers requests in the order they were made, so a store read  *)
(* returns the store as it is when storage.local.get is called, and a      *)
(* store write takes effect (with the object as it is then) when           *)
(* storage.local.set is called; what the await delays is the continuation. *)
(***************************************************************************)
EXTENDS Integers, Sequences, FiniteSets, TLC

VARIABLES
    store,           \* browser.storage.local: [workspaces, nextId]
    windows,         \* the browser's windows, by id: [open, tabs, groups]
    tabGroups,       \* whether the platform exposes browser.tabGroups
    pendingUpdates,  \* the Set of window ids, in insertion order
    updateTimer,     \* the timeout id held by the scheduler, or Null
    timers,          \* the timeouts set and neither fired nor cancelled, by id
    nextTimerId,     \* the id setTimeout returns next
    tasks,           \* the async handlers in flight, oldest first
    nRequests,       \* messages delivered to the router so far
    nEvents,         \* platform events delivered so far
    burst,           \* history: the current run of rapid notifications
    owed,            \* history: windows notified during a pass, not yet re-read
    lostUpdate,      \* history: a write differed from the atomic read-modify-write
    assigned,        \* history: the ids saveWindow has responded with, in order
    recreated,       \* history: the windows openWorkspace has created, and for what
    closedBound,     \* history: workspaces whose window-removed event was handled
    response,        \* what the step just taken passed to sendResponse, if anything
    nResponses,      \* history: the calls of sendResponse so far
    imported,        \* history: the payload of the import request served last
    windowLastActive, \* window id -> the time of its last focus, for those focused
    failing,         \* the platform calls that reject in this behaviour
    arg,             \* the argument a pure function is applied to
    result           \* what the function returned, once it has been applied

vars == <<store, windows, tabGroups, pendingUpdates, updateTimer, timers,
          nextTimerId, tasks, nRequests, nEvents, burst, owed,
          lostUpdate, assigned, recreated, closedBound, response,
          nResponses, imported, windowLastActive, failing, arg, result>>

schedVars == <<pendingUpdates, updateTimer, timers, nextTimerId, burst, owed>>

\* What the engine never touches: the environment's choice of the calls that
\* reject, and the argument and result of a function applied on its own.
auxVars == <<failing, arg, result>>

---------------------------------------------------------------------------
(* Bounds of the model. *)

\* Messages delivered to the router in one behaviour.
MaxRequests == 2
\* Platform events (tab changes, window closes) in one behaviour of the
\* scheduler.
MaxEvents == 3
\* Platform events in one behaviour in which requests are served as well.
MaxLifeEvents == 1
\* Requests in one behaviour of a specification of a single operation.
MaxOpRequests == 1
\* Async handlers in flight at once.
MaxTasks == 2
\* The length of a list a function is applied to on its own.
MaxLen == 2
\* The latest time Date.now() returns.
MaxNow == 2

---------------------------------------------------------------------------
(* Values. *)

\* JS null, for a windowId and for the timer handle (both are tested by
\* truthiness and window and timer ids start at 1).
Null == 0
\* JS undefined, for an optional string field.
Undefined == "<undefined>"
\* The groupId of a tab that is in no group.
NoGroup == Null

DEBOUNCE_DELAY == 800

Min(S) == CHOOSE x \in S : \A y \in S : x <= y
Max(S) == CHOOSE x \in S : \A y \in S : x >= y

Range(s) == {s[i] : i \in DOMAIN s}

\* A function without key k.
Without(f, k) == [x \in DOMAIN f \ {k} |-> f[x]]
\* A function with key k set to v (workspaces[k] = v).
With(f, k, v) == [x \in DOMAIN f \cup {k} |-> IF x = k THEN v ELSE f[x]]

\* URLs are strings of characters, so that startsWith is computed.
Http == <<"h", "t", "t", "p", ":", "/", "/">>
Https == <<"h", "t", "t", "p", "s", ":", "/", "/">>
AboutBlank == <<"a", "b", "o", "u", "t", ":", "b", "l", "a", "n", "k">>
UrlHttpsA == Https \o <<"a">>
UrlHttpB == Http \o <<"b">>
UrlFtpX == <<"f", "t", "p", ":", "/", "/", "x">>
UrlJs == <<"j", "a", "v", "a", "s", "c", "r", "i", "p", "t", ":", "a">>

\* URLs at the edges of the allow-list: about:blank with something after
\* it, a prefix of http://, and the empty string.
UrlAboutBlankX == AboutBlank \o <<"x">>
UrlHttpShort == <<"h", "t", "t", "p", ":", "/">>
UrlEmpty == <<>>
Urls == {UrlHttpsA, UrlHttpB, AboutBlank, UrlAboutBlankX, UrlFtpX, UrlJs,
         UrlHttpShort, UrlEmpty}

\* The lists of at most n elements of S.
ListsUpTo(S, n) == UNION {[1..k -> S] : k \in 0..n}

StartsWith(s, p) == Len(s) >= Len(p) /\ SubSeq(s, 1, Len(p)) = p

\* What a window can hold: its tabs in order and its tab groups.
ContentA ==
    [tabs |-> <<[url |-> UrlHttpsA, title |-> "A", active |-> TRUE, groupId |-> NoGroup]>>,
     groups |-> <<>>]
ContentB ==
    [tabs |-> <<[url |-> UrlHttpB, title |-> "B", active |-> FALSE, groupId |-> 1],
                [url |-> UrlFtpX, title |-> "F", active |-> TRUE, groupId |-> 1]>>,
     groups |-> <<[id |-> 1, title |-> "g", color |-> "blue", collapsed |-> FALSE]>>]
ContentC ==
    [tabs |-> <<[url |-> UrlJs, title |-> "J", active |-> FALSE, groupId |-> NoGroup],
                [url |-> AboutBlank, title |-> "", active |-> FALSE, groupId |-> NoGroup]>>,
     groups |-> <<>>]
\* Three tabs in two groups, the first of which holds a single tab.
ContentG ==
    [tabs |-> <<[url |-> UrlHttpsA, title |-> "A", active |-> TRUE, groupId |-> 1],
                [url |-> UrlHttpB, title |-> "B", active |-> FALSE, groupId |-> 2],
                [url |-> UrlHttpsA, title |-> "A", active |-> FALSE, groupId |-> 2]>>,
     groups |-> <<[id |-> 1, title |-> "one", color |-> "red", collapsed |-> TRUE],
                  [id |-> 2, title |-> "two", color |-> "blue", collapsed |-> FALSE]>>]
\* What a tab event can leave in a window.
Contents == {ContentA, ContentB}

\* A window that has been closed: tabs.query finds nothing.
ClosedWindow == [open |-> FALSE, tabs |-> <<>>, groups |-> <<>>]
OpenWindow(c) == [open |-> TRUE, tabs |-> c.tabs, groups |-> c.groups]

\* The titles a user gives in renameWorkspace.
NewTitles == {"X", ""}

\* order of a workspace that was never reordered (the field is absent).
NoOrder == Null - 1

---------------------------------------------------------------------------
(* The storage helpers and the pure functions. *)

\* A getWorkspaces that returns the nextId it was given, none if none.
getWorkspacesNoDefault(st) ==
    [workspaces |-> st.workspaces, nextId |-> st.nextId]

\* getWorkspaces: the two keys with their defaults; an absent key reads as
\* the empty map, and an absent or zero nextId as 1.
getWorkspaces(st) ==
    [workspaces |-> st.workspaces,
     nextId |-> IF st.nextId = 0 THEN 1 ELSE st.nextId]

\* setWorkspaces: both keys are overwritten.
setWorkspaces(workspaces, nextId) ==
    [workspaces |-> workspaces, nextId |-> nextId]

\* A sanitizer that lets through every URL that starts with about:blank.
sanitizeUrlByPrefix(url) ==
    IF StartsWith(url, Http) \/ StartsWith(url, Https) \/ StartsWith(url, AboutBlank)
    THEN url
    ELSE AboutBlank

sanitizeUrl(url) ==
    IF StartsWith(url, Http) \/ StartsWith(url, Https) \/ url = AboutBlank
    THEN url
    ELSE AboutBlank

sanitizeUrls(urls) == [i \in DOMAIN urls |-> sanitizeUrl(urls[i])]

TabUrls(tabs) == [i \in DOMAIN tabs |-> tabs[i].url]

\* tabs.find((tab) => tab.active): the first active tab, or Null.
FindActive(tabs) ==
    LET act == {i \in DOMAIN tabs : tabs[i].active}
    IN  IF act = {} THEN Null ELSE Min(act)

\* The representative tab of a reconciliation: the active tab, else the last.
ReconcileTitle(tabs) ==
    LET i == IF FindActive(tabs) # Null THEN FindActive(tabs) ELSE Len(tabs)
    IN  IF tabs = <<>> THEN "" ELSE tabs[i].title

\* The title of a saveWindow: that of the active tab, else of the first, and
\* the empty string when there is no tab at all.
SaveTitle(tabs) ==
    LET i == IF FindActive(tabs) # Null THEN FindActive(tabs) ELSE 1
    IN  IF tabs = <<>> THEN "" ELSE tabs[i].title

\* The range of one group: the least and greatest (0-based) tab index.
GroupRange(tabs, group) ==
    LET idx == {i - 1 : i \in {j \in DOMAIN tabs : tabs[j].groupId = group.id}}
    IN  [start |-> Min(idx), end |-> Max(idx), title |-> group.title,
         color |-> group.color, collapsed |-> group.collapsed]

RECURSIVE GroupRanges(_, _)
GroupRanges(tabs, groups) ==
    IF groups = <<>> THEN <<>>
    ELSE LET g == Head(groups)
             rest == GroupRanges(tabs, Tail(groups))
         IN  IF \E j \in DOMAIN tabs : tabs[j].groupId = g.id
             THEN <<GroupRange(tabs, g)>> \o rest
             ELSE rest

\* A reconciliation that takes the representative tab's title whether or not
\* a custom title has been set.
ReconciledTitleAlways(ws, tabs) == ReconcileTitle(tabs)

\* The title a reconciliation leaves: the representative tab's, unless a
\* custom title has been set.
ReconciledTitle(ws, tabs) ==
    IF ws.customTitle = Undefined THEN ReconcileTitle(tabs) ELSE ws.title

\* A loop that stops at the first workspace bound to winId.
ApplyUpdateFirst(workspaces, winId, tabs, groupRanges) ==
    LET bound == {k \in DOMAIN workspaces : workspaces[k].windowId = winId}
    IN  [wsId \in DOMAIN workspaces |->
            IF wsId \in bound /\ \A k \in bound : wsId <= k
            THEN [workspaces[wsId] EXCEPT
                     !.tabs = TabUrls(tabs),
                     !.groupRanges = groupRanges,
                     !.title = ReconciledTitle(workspaces[wsId], tabs)]
            ELSE workspaces[wsId]]

\* A loop that adds the live URLs to the stored ones.
ApplyUpdateAppending(workspaces, winId, tabs, groupRanges) ==
    [wsId \in DOMAIN workspaces |->
        IF workspaces[wsId].windowId = winId
        THEN [workspaces[wsId] EXCEPT
                 !.tabs = @ \o TabUrls(tabs),
                 !.groupRanges = groupRanges,
                 !.title = ReconciledTitle(workspaces[wsId], tabs)]
        ELSE workspaces[wsId]]

\* The loop at the end of updateWorkspaceForWindow: every workspace bound to
\* winId gets the live URLs, the group ranges and (unless custom) the title.
ApplyUpdate(workspaces, winId, tabs, groupRanges) ==
    [wsId \in DOMAIN workspaces |->
        IF workspaces[wsId].windowId = winId
        THEN [workspaces[wsId] EXCEPT
                 !.tabs = TabUrls(tabs),
                 !.groupRanges = groupRanges,
                 !.title = ReconciledTitle(workspaces[wsId], tabs)]
        ELSE workspaces[wsId]]

---------------------------------------------------------------------------
(* Tasks: the async handlers in flight. *)

NoResponse == [action |-> "none"]

\* The number of sendResponse calls a step makes, from what it passed.
Answered(r) == IF r.action = "none" THEN 0 ELSE 1

\* The platform and store calls the handlers await.
Calls ==
    {"storage.get", "storage.set", "tabs.query", "tabGroups.query",
     "windows.update", "windows.create", "windows.getAll", "tabs.group"}

\* The outcomes of a call: a call that can fail in this behaviour rejects or
\* not, each time it is made; any other call does not reject.
Rejects(call) == IF call \in failing THEN BOOLEAN ELSE {FALSE}

\* The response of the catch block of a handler: the message of the error
\* that a rejected call or a throwing statement carries.
ErrorMessage == "<error.message>"
Failure(action) == [action |-> action, success |-> FALSE, error |-> ErrorMessage]

\* The store no write has reached.
NeverWritten == [workspaces |-> <<>>, nextId |-> Null]

\* What storage.local.get gives getWorkspaces: the store, or, when the call
\* rejects, nothing: getWorkspaces catches the rejection and returns its
\* defaults, as it does for the store no write has reached.
StoreRead == IF TRUE \in Rejects("storage.get") THEN {store, NeverWritten} ELSE {store}

\* The store after setWorkspaces(st): st, or, when storage.local.set rejects,
\* the store as it was: setWorkspaces catches the rejection.
StoreWritten(st) == IF TRUE \in Rejects("storage.set") THEN {st, store} ELSE {st}

NoBurst == [w |-> Null, n |-> 0, runs |-> 0, timer |-> Null]

NewTask(kind) ==
    [kind |-> kind, pc |-> "start", ws |-> <<>>, nextId |-> 0, id |-> Null,
     win |-> Null, tabs |-> <<>>, ranges |-> <<>>, title |-> Undefined,
     order |-> <<>>, idx |-> 0, deferred |-> <<>>, applied |-> <<>>,
     bound |-> {}]

RemoveAt(s, i) == SubSeq(s, 1, i - 1) \o SubSeq(s, i + 1, Len(s))

PassInFlight == \E i \in DOMAIN tasks : tasks[i].kind = "pass"

WindowIds == DOMAIN windows
OpenWindowIds == {w \in DOMAIN windows : windows[w].open}

---------------------------------------------------------------------------
(* The debounced reconciliation scheduler. *)

\* What a listener can hand over as a window id: a value with its typeof.
\* The value of what is not a number is not looked at.
JsValue(type, value) == [type |-> type, value |-> value]
Number(n) == JsValue("number", n)

\* A scheduler that takes whatever it is given for a window id.
IsWindowIdAlways(windowId) == TRUE

\* The test at the head of scheduleWorkspaceUpdate, negated:
\* typeof windowId !== "number" || windowId < 0.
IsWindowId(windowId) ==
    ~(windowId.type # "number" \/ windowId.value < 0)

\* A scheduler that leaves a running timer alone: the pass starts
\* DEBOUNCE_DELAY after the first notification, not after the last.
scheduleWorkspaceUpdateThrottled(windowId) ==
    IF ~IsWindowId(windowId)
    THEN UNCHANGED <<pendingUpdates, updateTimer, timers, nextTimerId>>
    ELSE /\ pendingUpdates' =
               IF windowId.value \in Range(pendingUpdates) THEN pendingUpdates
               ELSE Append(pendingUpdates, windowId.value)
         /\ IF updateTimer # Null
            THEN UNCHANGED <<updateTimer, timers, nextTimerId>>
            ELSE /\ timers' = timers \cup {nextTimerId}
                 /\ updateTimer' = nextTimerId
                 /\ nextTimerId' = nextTimerId + 1

\* scheduleWorkspaceUpdate(windowId): add to the pending set, cancel the
\* timer the handle names (if the handle is set) and start a new one.
scheduleWorkspaceUpdate(windowId) ==
    IF ~IsWindowId(windowId)
    THEN UNCHANGED <<pendingUpdates, updateTimer, timers, nextTimerId>>
    ELSE /\ pendingUpdates' =
               IF windowId.value \in Range(pendingUpdates) THEN pendingUpdates
               ELSE Append(pendingUpdates, windowId.value)
         /\ timers' =
               (IF updateTimer # Null THEN timers \ {updateTimer} ELSE timers)
               \cup {nextTimerId}
         /\ updateTimer' = nextTimerId
         /\ nextTimerId' = nextTimerId + 1

\* A notification from the event bridge, with the history it leaves.
Notify(w) ==
    /\ scheduleWorkspaceUpdate(Number(w))
    /\ burst' = IF PassInFlight THEN NoBurst
                ELSE IF burst.w = w /\ burst.timer \in timers
                     THEN [burst EXCEPT !.n = @ + 1, !.timer = nextTimerId]
                     ELSE [w |-> w, n |-> 1, runs |-> 0, timer |-> nextTimerId]
    /\ owed' = IF PassInFlight THEN owed \cup {w} ELSE owed

\* tabs.onCreated, onRemoved, onUpdated, onMoved, onAttached, onDetached,
\* onActivated and the tabGroups events: the window's tabs are now c.
TabsChanged(w, c) ==
    /\ nEvents < MaxEvents
    /\ w \in OpenWindowIds
    /\ windows' = [windows EXCEPT ![w] = OpenWindow(c)]
    /\ Notify(w)
    /\ nEvents' = nEvents + 1
    /\ response' = NoResponse
    /\ UNCHANGED <<store, tabGroups, tasks, nRequests, lostUpdate, assigned,
                   recreated, closedBound>>
    /\ nResponses' = nResponses + Answered(response')
    /\ UNCHANGED <<imported, windowLastActive, auxVars>>

\* The timeout t fires: processPendingUpdates starts and reads the store.
\* Every timeout is set with the same delay, DEBOUNCE_DELAY, so the timeouts
\* fire in the order they were set: the one that fires is the oldest.
TimerFires(t) ==
    /\ t \in timers
    /\ t = Min(timers)
    /\ Len(tasks) < MaxTasks
    /\ timers' = timers \ {t}
    /\ \E st \in StoreRead :
          tasks' = Append(tasks,
              [NewTask("pass") EXCEPT
                  !.ws = getWorkspaces(st).workspaces,
                  !.nextId = getWorkspaces(st).nextId])
    /\ response' = NoResponse
    /\ UNCHANGED <<store, windows, tabGroups, pendingUpdates, updateTimer,
                   nextTimerId, nRequests, nEvents, burst, owed,
                   lostUpdate, assigned, recreated,
                   closedBound>>
    /\ nResponses' = nResponses + Answered(response')
    /\ UNCHANGED <<imported, windowLastActive, auxVars>>

---------------------------------------------------------------------------
(* The reconciliation pass. *)

\* browser.tabs.query({windowId}): the tabs of the window, none if it is gone.
QueryTabs(w) == IF w \in DOMAIN windows THEN windows[w].tabs ELSE <<>>
QueryGroups(w) == IF w \in DOMAIN windows THEN windows[w].groups ELSE <<>>

\* An updateWorkspaceForWindow without its first line: a window without tabs
\* is reconciled as any other.
updateWorkspaceForWindowAlways(t, winId, tabs) ==
    IF tabGroups
    THEN [t EXCEPT !.deferred = Append(@,
             [win |-> winId, tabs |-> tabs,
              ranges |-> GroupRanges(tabs, QueryGroups(winId))])]
    ELSE [t EXCEPT
             !.ws = ApplyUpdate(@, winId, tabs, <<>>),
             !.applied = Append(@, [win |-> winId, tabs |-> tabs, ranges |-> <<>>])]

\* The call updateWorkspaceForWindow(workspaces, winId, tabs), which the pass
\* does not await: the task after the part that runs before the call returns.
\* Without tab groups that is the whole function.  With tab groups the
\* function stops at its await of tabGroups.query, and what remains (the
\* update of the workspaces object) is deferred.
updateWorkspaceForWindow(t, winId, tabs) ==
    IF tabs = <<>> THEN t
    ELSE IF tabGroups
         THEN [t EXCEPT !.deferred = Append(@,
                  [win |-> winId, tabs |-> tabs,
                   ranges |-> GroupRanges(tabs, QueryGroups(winId))])]
         ELSE [t EXCEPT
                  !.ws = ApplyUpdate(@, winId, tabs, <<>>),
                  !.applied = Append(@, [win |-> winId, tabs |-> tabs, ranges |-> <<>>])]

\* The rest of updateWorkspaceForWindow, after tabGroups.query has answered;
\* its rejection is caught and leaves the group ranges empty.
GroupsResolved(i) ==
    /\ i \in DOMAIN tasks
    /\ tasks[i].kind = "pass"
    /\ tasks[i].deferred # <<>>
    /\ \E rejected \in Rejects("tabGroups.query") :
          LET d0 == Head(tasks[i].deferred)
              d == IF rejected THEN [d0 EXCEPT !.ranges = <<>>] ELSE d0
          IN  tasks' = [tasks EXCEPT
                  ![i].ws = ApplyUpdate(@, d.win, d.tabs, d.ranges),
                  ![i].applied = Append(@, d),
                  ![i].deferred = Tail(@)]
    /\ response' = NoResponse
    /\ UNCHANGED <<store, windows, tabGroups, nRequests, nEvents, lostUpdate,
                   assigned, recreated, closedBound>>
    /\ UNCHANGED schedVars
    /\ nResponses' = nResponses + Answered(response')
    /\ UNCHANGED <<imported, windowLastActive, auxVars>>

\* What the pass would have written had it read the store at its write.
RECURSIVE ApplyAll(_, _)
ApplyAll(workspaces, updates) ==
    IF updates = <<>> THEN workspaces
    ELSE ApplyAll(ApplyUpdate(workspaces, Head(updates).win, Head(updates).tabs,
                              Head(updates).ranges),
                  Tail(updates))

\* A loop that ends after the first window of the pending set.
HasNextOnce(t) == t.idx < 1 /\ t.idx < Len(pendingUpdates)

\* for (const winId of pendingUpdates): whether the Set iterator of the pass
\* has a window to yield.
HasNext(t) == t.idx < Len(pendingUpdates)

\* One turn of the loop of processPendingUpdates: the tabs of the window
\* queried last have arrived and updateWorkspaceForWindow is called; then the
\* Set iterator either yields the next window, whose tabs are queried, or is
\* done, and setWorkspaces is called with the workspaces object as it is.
\* A tabs.query that rejects is caught in the loop: the window is skipped, as
\* a window without tabs is.
PassIterate(i) ==
    /\ i \in DOMAIN tasks
    /\ tasks[i].kind = "pass"
    /\ tasks[i].pc \in {"start", "query"}
    /\ LET t0 == tasks[i]
           t == IF t0.pc = "query"
                THEN updateWorkspaceForWindow(t0, t0.win, t0.tabs)
                ELSE t0
       IN  IF HasNext(t)
           THEN LET winId == pendingUpdates[t.idx + 1]
                IN  /\ \E rejected \in Rejects("tabs.query") :
                          tasks' = [tasks EXCEPT ![i] =
                              [t EXCEPT !.pc = "query", !.win = winId,
                                        !.tabs = IF rejected THEN <<>>
                                                 ELSE QueryTabs(winId),
                                        !.idx = @ + 1]]
                    /\ owed' = owed \ {winId}
                    /\ burst' = IF burst.w = winId /\ burst.n > 0
                                THEN [burst EXCEPT !.runs = @ + 1]
                                ELSE burst
                    /\ UNCHANGED <<store, lostUpdate>>
           ELSE /\ tasks' = [tasks EXCEPT ![i] = [t EXCEPT !.pc = "clear"]]
                /\ store' \in StoreWritten(setWorkspaces(t.ws, t.nextId))
                /\ lostUpdate' =
                       (lostUpdate \/
                        store' # setWorkspaces(
                            ApplyAll(getWorkspaces(store).workspaces, t.applied),
                            getWorkspaces(store).nextId))
                /\ UNCHANGED <<owed, burst>>
    /\ response' = NoResponse
    /\ UNCHANGED <<windows, tabGroups, pendingUpdates, updateTimer, timers,
                   nextTimerId, nRequests, nEvents, assigned,
                   recreated, closedBound>>
    /\ nResponses' = nResponses + Answered(response')
    /\ UNCHANGED <<imported, windowLastActive, auxVars>>

\* The end of processPendingUpdates, after the write: the pending set is
\* cleared and the timer handle is set to null.  A Set iterator that is still
\* in use sees the set empty and yields what is added from now on.
PassFinish(i) ==
    /\ i \in DOMAIN tasks
    /\ tasks[i].kind = "pass"
    /\ tasks[i].pc = "clear"
    /\ pendingUpdates' = <<>>
    /\ updateTimer' = Null
    /\ tasks' = LET rest == RemoveAt(tasks, i)
                IN  [j \in DOMAIN rest |->
                        IF rest[j].kind = "pass"
                        THEN [rest[j] EXCEPT !.idx = 0]
                        ELSE rest[j]]
    /\ response' = NoResponse
    /\ UNCHANGED <<store, windows, tabGroups, timers, nextTimerId, nRequests,
                   nEvents, burst, owed, lostUpdate, assigned,
                   recreated, closedBound>>
    /\ nResponses' = nResponses + Answered(response')
    /\ UNCHANGED <<imported, windowLastActive, auxVars>>

---------------------------------------------------------------------------
(* The lifecycle operations. *)

\* The workspace ids a request can name: those stored, and one that is not.
WorkspaceIds ==
    DOMAIN getWorkspaces(store).workspaces \cup {getWorkspaces(store).nextId}

\* A message can be delivered: the handler becomes a task.
CanRequest == nRequests < MaxRequests /\ Len(tasks) < MaxTasks

\* The store read at the head of a handler.
ReadInto(t, st) ==
    [t EXCEPT !.ws = getWorkspaces(st).workspaces,
              !.nextId = getWorkspaces(st).nextId]

\* A handler whose catch block logs the error and sends nothing.
RespondOnSuccess(i, r) ==
    /\ tasks' = RemoveAt(tasks, i)
    /\ response' = IF r.success THEN r ELSE NoResponse

\* The handler calls sendResponse(r) and ends.
Respond(i, r) ==
    /\ tasks' = RemoveAt(tasks, i)
    /\ response' = r

\* A lookup that answers a missing workspace as any other error.
NotFoundUnnamed(action) == Failure(action)

\* The response of openWorkspace, unsaveWorkspace and renameWorkspace when
\* workspaces[workspaceId] is not there.
NotFound(action) ==
    [action |-> action, success |-> FALSE, error |-> "Workspace not found."]

\* Whether a write of what the handler computed overwrote a change that was
\* committed after the handler read the store: the store written is not
\* what the handler computes from the store as it is at the write.
Overwrites(written, atomic) == written # atomic

\* A saveWindow that takes any tab list, an empty one too.
HasNoTabsNever(tabs) == FALSE

\* The test of saveWindow on what tabs.query returned: !tabs || tabs.length === 0.
HasNoTabs(tabs) == tabs = <<>>

\* saveWindow: the handler starts with tabs.query.
SaveStart(windowId) ==
    /\ CanRequest
    /\ windowId \in WindowIds
    /\ tasks' = Append(tasks,
           [NewTask("save") EXCEPT !.win = windowId, !.tabs = QueryTabs(windowId)])
    /\ nRequests' = nRequests + 1
    /\ response' = NoResponse
    /\ UNCHANGED <<store, windows, tabGroups, nEvents, lostUpdate, assigned,
                   recreated, closedBound>>
    /\ UNCHANGED schedVars
    /\ nResponses' = nResponses + Answered(response')
    /\ UNCHANGED <<imported, windowLastActive, auxVars>>

\* saveWindow after tabs.query: a rejection is answered by the catch block;
\* no tabs is an error; with tab groups the groups are queried next, without
\* them the store is read.
SaveQueried(i) ==
    /\ i \in DOMAIN tasks
    /\ tasks[i].kind = "save"
    /\ tasks[i].pc = "start"
    /\ LET t == tasks[i]
       IN  \E rejected \in Rejects("tabs.query"), st \in StoreRead :
           IF rejected
           THEN Respond(i, Failure("saveWindow"))
           ELSE IF HasNoTabs(t.tabs)
           THEN Respond(i, [action |-> "saveWindow", success |-> FALSE,
                            error |-> "Window has no tabs."])
           ELSE /\ response' = NoResponse
                /\ tasks' = [tasks EXCEPT ![i] =
                       IF tabGroups
                       THEN [t EXCEPT !.pc = "read",
                                      !.ranges = GroupRanges(t.tabs, QueryGroups(t.win))]
                       ELSE [ReadInto(t, st) EXCEPT !.pc = "write"]]
    /\ UNCHANGED <<store, windows, tabGroups, nRequests, nEvents, lostUpdate,
                   assigned, recreated, closedBound>>
    /\ UNCHANGED schedVars
    /\ nResponses' = nResponses + Answered(response')
    /\ UNCHANGED <<imported, windowLastActive, auxVars>>

\* saveWindow after tabGroups.query, whose rejection is caught and leaves the
\* group ranges empty: the store is read.
SaveRead(i) ==
    /\ i \in DOMAIN tasks
    /\ tasks[i].kind = "save"
    /\ tasks[i].pc = "read"
    /\ \E rejected \in Rejects("tabGroups.query"), st \in StoreRead :
          tasks' = [tasks EXCEPT ![i] =
              [ReadInto(tasks[i], st) EXCEPT
                  !.pc = "write",
                  !.ranges = IF rejected THEN <<>> ELSE @]]
    /\ response' = NoResponse
    /\ UNCHANGED <<store, windows, tabGroups, nRequests, nEvents, lostUpdate,
                   assigned, recreated, closedBound>>
    /\ UNCHANGED schedVars
    /\ nResponses' = nResponses + Answered(response')
    /\ UNCHANGED <<imported, windowLastActive, auxVars>>

\* The record saveWindow builds.
NewWorkspace(nextId, windowId, tabs, groupRanges) ==
    [id |-> nextId, windowId |-> windowId, tabs |-> TabUrls(tabs),
     title |-> SaveTitle(tabs), groupRanges |-> groupRanges,
     customTitle |-> Undefined, order |-> NoOrder]

\* A saveWindow that stores the record and leaves nextId as it was.
SaveResultSameNextId(workspaces, nextId, t) ==
    setWorkspaces(With(workspaces, nextId,
                       NewWorkspace(nextId, t.win, t.tabs, t.ranges)),
                  nextId)

\* What saveWindow writes, from the workspaces and nextId it holds.
SaveResult(workspaces, nextId, t) ==
    setWorkspaces(With(workspaces, nextId,
                       NewWorkspace(nextId, t.win, t.tabs, t.ranges)),
                  nextId + 1)

\* saveWindow after the store read: the record is stored under nextId and
\* nextId + 1 is written; the response carries the record.
SaveWrite(i) ==
    /\ i \in DOMAIN tasks
    /\ tasks[i].kind = "save"
    /\ tasks[i].pc = "write"
    /\ LET t == tasks[i]
           cur == getWorkspaces(store)
       IN  /\ store' \in StoreWritten(SaveResult(t.ws, t.nextId, t))
           /\ lostUpdate' = (lostUpdate \/
                  Overwrites(store', SaveResult(cur.workspaces, cur.nextId, t)))
           /\ assigned' = Append(assigned, t.nextId)
           /\ Respond(i, [action |-> "saveWindow", success |-> TRUE,
                          workspace |-> NewWorkspace(t.nextId, t.win, t.tabs, t.ranges)])
    /\ UNCHANGED <<windows, tabGroups, nRequests, nEvents, recreated, closedBound>>
    /\ UNCHANGED schedVars
    /\ nResponses' = nResponses + Answered(response')
    /\ UNCHANGED <<imported, windowLastActive, auxVars>>

\* unsaveWorkspace, renameWorkspace and updateOrder start with the store read.
UnsaveStart(workspaceId) ==
    /\ CanRequest
    /\ workspaceId \in WorkspaceIds
    /\ \E st \in StoreRead :
          tasks' = Append(tasks, [ReadInto(NewTask("unsave"), st) EXCEPT !.id = workspaceId])
    /\ nRequests' = nRequests + 1
    /\ response' = NoResponse
    /\ UNCHANGED <<store, windows, tabGroups, nEvents, lostUpdate, assigned,
                   recreated, closedBound>>
    /\ UNCHANGED schedVars
    /\ nResponses' = nResponses + Answered(response')
    /\ UNCHANGED <<imported, windowLastActive, auxVars>>

UnsaveResult(workspaces, nextId, t) ==
    IF t.id \in DOMAIN workspaces
    THEN setWorkspaces(Without(workspaces, t.id), nextId)
    ELSE setWorkspaces(workspaces, nextId)

UnsaveWrite(i) ==
    /\ i \in DOMAIN tasks
    /\ tasks[i].kind = "unsave"
    /\ LET t == tasks[i]
           cur == getWorkspaces(store)
       IN  IF t.id \notin DOMAIN t.ws
           THEN /\ Respond(i, NotFound("unsaveWorkspace"))
                /\ UNCHANGED <<store, lostUpdate>>
           ELSE /\ store' \in StoreWritten(UnsaveResult(t.ws, t.nextId, t))
                /\ lostUpdate' = (lostUpdate \/
                       Overwrites(store', UnsaveResult(cur.workspaces, cur.nextId, t)))
                /\ Respond(i, [action |-> "unsaveWorkspace", success |-> TRUE])
    /\ UNCHANGED <<windows, tabGroups, nRequests, nEvents, assigned, recreated,
                   closedBound>>
    /\ UNCHANGED schedVars
    /\ nResponses' = nResponses + Answered(response')
    /\ UNCHANGED <<imported, windowLastActive, auxVars>>

RenameStart(workspaceId, newTitle) ==
    /\ CanRequest
    /\ workspaceId \in WorkspaceIds
    /\ \E st \in StoreRead :
          tasks' = Append(tasks,
              [ReadInto(NewTask("rename"), st) EXCEPT !.id = workspaceId, !.title = newTitle])
    /\ nRequests' = nRequests + 1
    /\ response' = NoResponse
    /\ UNCHANGED <<store, windows, tabGroups, nEvents, lostUpdate, assigned,
                   recreated, closedBound>>
    /\ UNCHANGED schedVars
    /\ nResponses' = nResponses + Answered(response')
    /\ UNCHANGED <<imported, windowLastActive, auxVars>>

\* The two assignments of renameWorkspace.
Renamed(ws, newTitle) == [ws EXCEPT !.customTitle = newTitle, !.title = newTitle]

RenameResult(workspaces, nextId, t) ==
    IF t.id \in DOMAIN workspaces
    THEN setWorkspaces([workspaces EXCEPT ![t.id] = Renamed(@, t.title)], nextId)
    ELSE setWorkspaces(workspaces, nextId)

\* renameWorkspace after the store read (the window's title preface, which
\* it sets on the way when the workspace has a window, is not part of the
\* model's state; a rejection of tabs.query or windows.update on that way is
\* caught there and changes nothing).
RenameWrite(i) ==
    /\ i \in DOMAIN tasks
    /\ tasks[i].kind = "rename"
    /\ LET t == tasks[i]
           cur == getWorkspaces(store)
       IN  IF t.id \notin DOMAIN t.ws
           THEN /\ Respond(i, NotFound("renameWorkspace"))
                /\ UNCHANGED <<store, lostUpdate>>
           ELSE /\ store' \in StoreWritten(RenameResult(t.ws, t.nextId, t))
                /\ lostUpdate' = (lostUpdate \/
                       Overwrites(store', RenameResult(cur.workspaces, cur.nextId, t)))
                /\ Respond(i, [action |-> "renameWorkspace", success |-> TRUE])
    /\ UNCHANGED <<windows, tabGroups, nRequests, nEvents, assigned, recreated,
                   closedBound>>
    /\ UNCHANGED schedVars
    /\ nResponses' = nResponses + Answered(response')
    /\ UNCHANGED <<imported, windowLastActive, auxVars>>

\* The lists a reorder request carries.
OrderLists == {<<2, 1>>, <<1>>}

UpdateOrderStart(newOrder) ==
    /\ CanRequest
    /\ newOrder \in OrderLists
    /\ \E st \in StoreRead :
          tasks' = Append(tasks, [ReadInto(NewTask("order"), st) EXCEPT !.order = newOrder])
    /\ nRequests' = nRequests + 1
    /\ response' = NoResponse
    /\ UNCHANGED <<store, windows, tabGroups, nEvents, lostUpdate, assigned,
                   recreated, closedBound>>
    /\ UNCHANGED schedVars
    /\ nResponses' = nResponses + Answered(response')
    /\ UNCHANGED <<imported, windowLastActive, auxVars>>

\* updateOrder with a message that has no newOrder: the store is read, and
\* then newOrder.forEach throws.
UpdateOrderNoList ==
    /\ CanRequest
    /\ \E st \in StoreRead :
          tasks' = Append(tasks, [ReadInto(NewTask("order"), st) EXCEPT !.pc = "throws"])
    /\ nRequests' = nRequests + 1
    /\ response' = NoResponse
    /\ UNCHANGED <<store, windows, tabGroups, nEvents, lostUpdate, assigned,
                   recreated, closedBound>>
    /\ UNCHANGED schedVars
    /\ nResponses' = nResponses + Answered(response')
    /\ UNCHANGED <<imported, windowLastActive, auxVars>>

\* An updateOrder that gives every workspace the list does not name the same
\* value, the length of the list.
OrderOfUnlistedSame(workspaces, newOrder, wsId) ==
    IF wsId \in Range(newOrder)
    THEN Max({j \in DOMAIN newOrder : newOrder[j] = wsId}) - 1
    ELSE Len(newOrder)

\* An updateOrder that numbers the workspaces the list does not name from 0.
OrderOfUnlistedFromZero(workspaces, newOrder, wsId) ==
    IF wsId \in Range(newOrder)
    THEN Max({j \in DOMAIN newOrder : newOrder[j] = wsId}) - 1
    ELSE Cardinality({k \in DOMAIN workspaces : k < wsId /\ k \notin Range(newOrder)})

\* The order updateOrder gives workspace wsId: its (last) index in the list,
\* or, for a workspace the list does not name, the next value after the list,
\* in the order of the keys.
OrderOf(workspaces, newOrder, wsId) ==
    IF wsId \in Range(newOrder)
    THEN Max({j \in DOMAIN newOrder : newOrder[j] = wsId}) - 1
    ELSE Len(newOrder)
         + Cardinality({k \in DOMAIN workspaces : k < wsId /\ k \notin Range(newOrder)})

UpdateOrderResult(workspaces, nextId, t) ==
    setWorkspaces([wsId \in DOMAIN workspaces |->
                      [workspaces[wsId] EXCEPT !.order = OrderOf(workspaces, t.order, wsId)]],
                  nextId)

UpdateOrderWrite(i) ==
    /\ i \in DOMAIN tasks
    /\ tasks[i].kind = "order"
    /\ LET t == tasks[i]
           cur == getWorkspaces(store)
       IN  IF t.pc = "throws"
           THEN /\ Respond(i, Failure("updateOrder"))
                /\ UNCHANGED <<store, lostUpdate>>
           ELSE /\ store' \in StoreWritten(UpdateOrderResult(t.ws, t.nextId, t))
                /\ lostUpdate' = (lostUpdate \/
                       Overwrites(store', UpdateOrderResult(cur.workspaces, cur.nextId, t)))
                /\ Respond(i, [action |-> "updateOrder", success |-> TRUE])
    /\ UNCHANGED <<windows, tabGroups, nRequests, nEvents, assigned, recreated,
                   closedBound>>
    /\ UNCHANGED schedVars
    /\ nResponses' = nResponses + Answered(response')
    /\ UNCHANGED <<imported, windowLastActive, auxVars>>

\* History: the workspaces ids are no longer workspaces of a closed window
\* (they are opened again, or replaced by an import).
Reopened(ts, ids) ==
    [j \in DOMAIN ts |-> [ts[j] EXCEPT !.bound = @ \ ids]]

\* openWorkspace starts with the store read.
OpenStart(workspaceId) ==
    /\ CanRequest
    /\ workspaceId \in WorkspaceIds
    /\ \E st \in StoreRead :
          tasks' = Append(Reopened(tasks, {workspaceId}),
                          [ReadInto(NewTask("open"), st) EXCEPT !.id = workspaceId])
    /\ nRequests' = nRequests + 1
    /\ closedBound' = closedBound \ {workspaceId}
    /\ response' = NoResponse
    /\ UNCHANGED <<store, windows, tabGroups, nEvents, lostUpdate, assigned, recreated>>
    /\ UNCHANGED schedVars
    /\ nResponses' = nResponses + Answered(response')
    /\ UNCHANGED <<imported, windowLastActive, auxVars>>

\* browser.windows.create({url}): a new window with one tab per URL.
CreatedWindow(urls) ==
    [open |-> TRUE,
     tabs |-> [j \in DOMAIN urls |->
                  [url |-> urls[j], title |-> "", active |-> (j = 1), groupId |-> NoGroup]],
     groups |-> <<>>]

\* The id the browser gives the next window.
NewWindowId == Cardinality(DOMAIN windows) + 1

\* An openWorkspace that hands the stored URLs to windows.create as they are.
UrlsToOpenUnsanitized(workspace) == workspace.tabs

\* The urls openWorkspace hands to windows.create.
UrlsToOpen(workspace) == sanitizeUrls(workspace.tabs)

\* The rebinding of openWorkspace.
Rebound(workspace, newWindowId) == [workspace EXCEPT !.windowId = newWindowId]

\* An openWorkspace whose attempt to focus the window never succeeds.
FocusedNever(workspace) == FALSE

\* Whether openWorkspace focuses the workspace's window: windowId is set and
\* windows.update({focused: true}) does not reject, which it does for a
\* window that does not exist.
Focused(workspace) ==
    /\ workspace.windowId # Null
    /\ workspace.windowId \in OpenWindowIds

\* openWorkspace after the store read: an unknown id is an error; a window
\* that can be focused ends the operation; otherwise a window is created from
\* the sanitized URLs and the workspace object is bound to it.  A rejection
\* of windows.update is caught and leads to the creation; a rejection of
\* windows.create is answered by the catch block.
OpenFocus(i) ==
    /\ i \in DOMAIN tasks
    /\ tasks[i].kind = "open"
    /\ tasks[i].pc = "start"
    /\ LET t == tasks[i]
       IN  \E noFocus \in Rejects("windows.update"),
              noWindow \in Rejects("windows.create") :
           IF t.id \notin DOMAIN t.ws
           THEN /\ Respond(i, NotFound("openWorkspace"))
                /\ UNCHANGED <<windows, recreated>>
           ELSE IF Focused(t.ws[t.id]) /\ ~noFocus
                THEN /\ Respond(i, [action |-> "openWorkspace", success |-> TRUE,
                                    message |-> "Window focused."])
                     /\ UNCHANGED <<windows, recreated>>
                ELSE IF noWindow
                THEN /\ Respond(i, Failure("openWorkspace"))
                     /\ UNCHANGED <<windows, recreated>>
                ELSE /\ windows' = With(windows, NewWindowId,
                                        CreatedWindow(UrlsToOpen(t.ws[t.id])))
                     /\ recreated' = recreated \cup
                            {[id |-> t.id, old |-> t.ws[t.id].windowId,
                              new |-> NewWindowId, tabs |-> t.ws[t.id].tabs]}
                     /\ tasks' = [tasks EXCEPT ![i] =
                            [t EXCEPT !.pc = "replay", !.win = NewWindowId,
                                      !.ws = [@ EXCEPT ![t.id] = Rebound(@, NewWindowId)]]]
                     /\ response' = NoResponse
    /\ UNCHANGED <<store, tabGroups, nRequests, nEvents, lostUpdate, assigned,
                   closedBound>>
    /\ UNCHANGED schedVars
    /\ nResponses' = nResponses + Answered(response')
    /\ UNCHANGED <<imported, windowLastActive, auxVars>>

\* The window after the group ranges have been replayed: the tabs whose index
\* lies in a range are grouped when there are more than one of them.
RECURSIVE ReplayGroups(_, _)
ReplayGroups(win, ranges) ==
    IF ranges = <<>> THEN win
    ELSE LET g == Head(ranges)
             inRange == {j \in DOMAIN win.tabs : j - 1 >= g.start /\ j - 1 <= g.end}
             gid == Len(win.groups) + 1
             grouped ==
                 IF Cardinality(inRange) > 1
                 THEN [win EXCEPT
                          !.tabs = [j \in DOMAIN win.tabs |->
                                       IF j \in inRange
                                       THEN [win.tabs[j] EXCEPT !.groupId = gid]
                                       ELSE win.tabs[j]],
                          !.groups = Append(@, [id |-> gid, title |-> g.title,
                                                color |-> g.color,
                                                collapsed |-> g.collapsed])]
                 ELSE win
         IN  ReplayGroups(grouped, Tail(ranges))

\* The number of times openWorkspace queries the tabs of the new window at
\* most: for (let i = 0; i < 10; ++i).
PollLimit == 10

\* How many of the tabs of window w a tabs.query can find: all of them, or,
\* in a browser that is still creating the tabs of a new window, any number.
TabsFound(w) ==
    IF "tabs.loading" \in failing
    THEN 0..Len(QueryTabs(w))
    ELSE {Len(QueryTabs(w))}

\* A loop that goes on until every tab is there.
PollAgainUnbounded(t, found) == found # Len(UrlsToOpen(t.ws[t.id]))

\* Whether the loop of openWorkspace takes another turn after the query
\* number t.idx + 1 found that many tabs: not when the number is that of the
\* URLs (break), and not after the last turn.
PollAgain(t, found) ==
    /\ found # Len(UrlsToOpen(t.ws[t.id]))
    /\ t.idx + 1 < PollLimit

\* The window after the group ranges have been replayed on the first found
\* of its tabs, which are those the last query returned.
ReplayFound(win, ranges, found) ==
    LET seen == ReplayGroups([win EXCEPT !.tabs = SubSeq(@, 1, found)], ranges)
    IN  [win EXCEPT !.tabs = seen.tabs \o SubSeq(@, found + 1, Len(@)),
                    !.groups = seen.groups]

\* openWorkspace after windows.create: one turn of the loop that queries the
\* tabs of the new window and, at the end of the loop, with tab groups, the
\* replay of the stored ranges on the tabs the last query returned.  A
\* rejection of tabs.query, or of tabs.group or tabGroups.update when there
\* is a group to make, is answered by the catch block: the new window stays
\* and the store is not written.
OpenReplay(i) ==
    /\ i \in DOMAIN tasks
    /\ tasks[i].kind = "open"
    /\ tasks[i].pc = "replay"
    /\ LET t == tasks[i]
       IN  \E noTabs \in Rejects("tabs.query"), noGroup \in Rejects("tabs.group"),
              found \in TabsFound(t.win) :
           LET replayed == IF tabGroups /\ windows[t.win].open
                           THEN [windows EXCEPT ![t.win] =
                                    ReplayFound(@, t.ws[t.id].groupRanges, found)]
                           ELSE windows
           IN  IF noTabs
               THEN /\ Respond(i, Failure("openWorkspace"))
                    /\ UNCHANGED windows
               ELSE IF PollAgain(t, found)
               THEN /\ tasks' = [tasks EXCEPT
                           ![i].idx = @ + 1,
                           ![i].tabs = SubSeq(QueryTabs(t.win), 1, found)]
                    /\ response' = NoResponse
                    /\ UNCHANGED windows
               ELSE IF noGroup /\ replayed # windows
               THEN /\ Respond(i, Failure("openWorkspace"))
                    /\ UNCHANGED windows
               ELSE /\ windows' = replayed
                    /\ tasks' = [tasks EXCEPT ![i].pc = "persist",
                                              ![i].idx = @ + 1,
                                              ![i].tabs = SubSeq(QueryTabs(t.win), 1, found)]
                    /\ response' = NoResponse
    /\ UNCHANGED <<store, tabGroups, nRequests, nEvents, lostUpdate, assigned,
                   recreated, closedBound>>
    /\ UNCHANGED schedVars
    /\ nResponses' = nResponses + Answered(response')
    /\ UNCHANGED <<imported, windowLastActive, auxVars>>

OpenResult(workspaces, nextId, t) ==
    IF t.id \in DOMAIN workspaces
    THEN setWorkspaces([workspaces EXCEPT ![t.id] = Rebound(@, t.win)], nextId)
    ELSE setWorkspaces(workspaces, nextId)

\* openWorkspace at its end: the workspaces object is written and the
\* response carries the new window's id.
OpenPersist(i) ==
    /\ i \in DOMAIN tasks
    /\ tasks[i].kind = "open"
    /\ tasks[i].pc = "persist"
    /\ LET t == tasks[i]
           cur == getWorkspaces(store)
       IN  /\ store' \in StoreWritten(setWorkspaces(t.ws, t.nextId))
           /\ lostUpdate' = (lostUpdate \/
                  Overwrites(store', OpenResult(cur.workspaces, cur.nextId, t)))
           /\ Respond(i, [action |-> "openWorkspace", success |-> TRUE,
                          message |-> "New window opened.", windowId |-> t.win])
    /\ UNCHANGED <<windows, tabGroups, nRequests, nEvents, assigned, recreated,
                   closedBound>>
    /\ UNCHANGED schedVars
    /\ nResponses' = nResponses + Answered(response')
    /\ UNCHANGED <<imported, windowLastActive, auxVars>>

\* The unsaved list of getState: the open windows that no saved workspace
\* is bound to.
UnsavedWindowIds(workspaces) ==
    LET savedWindowIds == {workspaces[k].windowId : k \in DOMAIN workspaces} \ {Null}
    IN  {w \in OpenWindowIds : w \notin savedWindowIds}

\* The user opens a window with the tabs of c: tabs.onCreated notifies the
\* scheduler of the new window.
WindowOpened(c) ==
    /\ nEvents < MaxEvents
    /\ windows' = Append(windows, OpenWindow(c))
    /\ Notify(Len(windows) + 1)
    /\ nEvents' = nEvents + 1
    /\ response' = NoResponse
    /\ UNCHANGED <<store, tabGroups, tasks, nRequests, lostUpdate, assigned,
                   recreated, closedBound>>
    /\ nResponses' = nResponses + Answered(response')
    /\ UNCHANGED <<imported, windowLastActive, auxVars>>

\* windows.onFocusChanged(windowId): the time is recorded for a window id
\* above 0; WINDOW_ID_NONE (-1) is ignored.  Date.now() is not before any time
\* recorded so far.
FocusChanged(windowId) ==
    /\ \E now \in 1..MaxNow :
          /\ \A w \in DOMAIN windowLastActive : windowLastActive[w] <= now
          /\ windowLastActive' = IF windowId > 0
                                 THEN With(windowLastActive, windowId, now)
                                 ELSE windowLastActive
    /\ response' = NoResponse
    /\ UNCHANGED <<store, windows, tabGroups, tasks, nRequests, nEvents, lostUpdate,
                   assigned, recreated, closedBound>>
    /\ UNCHANGED schedVars
    /\ nResponses' = nResponses + Answered(response')
    /\ UNCHANGED <<imported, auxVars>>

\* windowLastActive[win.id] || 0.
LastActive(w) ==
    IF w \in DOMAIN windowLastActive THEN windowLastActive[w] ELSE 0

\* The title getState gives an unsaved window: that of the active tab, else
\* of the first tab; "(No Tabs)" when there is none or the title is empty.
UnsavedTitle(tabs) ==
    IF tabs = <<>> \/ SaveTitle(tabs) = "" THEN "(No Tabs)" ELSE SaveTitle(tabs)

\* A getState that sorts the windows focused longest ago first.
LeastRecentFirst(a, b) == LastActive(a) < LastActive(b)

\* The comparator of getState's sort, b.lastActive - a.lastActive: whether
\* window a goes before window b.
MoreRecent(a, b) == LastActive(a) > LastActive(b)

\* unsavedWindows.sort(...): the windows of S, most recently active first;
\* the sort is stable, so windows of equal time stay in the order of
\* windows.getAll, which is that of their ids.
RECURSIVE SortedWindows(_)
SortedWindows(S) ==
    IF S = {} THEN <<>>
    ELSE LET first == CHOOSE w \in S :
                 \A v \in S \ {w} :
                     /\ ~MoreRecent(v, w)
                     /\ MoreRecent(w, v) \/ w < v
         IN  <<first>> \o SortedWindows(S \ {first})

\* The unsaved list of a getState response.
UnsavedList(workspaces) ==
    LET sorted == SortedWindows(UnsavedWindowIds(workspaces))
    IN  [j \in DOMAIN sorted |->
            [windowId |-> sorted[j],
             title |-> UnsavedTitle(windows[sorted[j]].tabs),
             lastActive |-> LastActive(sorted[j])]]

\* getState starts with the store read.
GetStateStart ==
    /\ CanRequest
    /\ \E st \in StoreRead :
          tasks' = Append(tasks, ReadInto(NewTask("state"), st))
    /\ nRequests' = nRequests + 1
    /\ response' = NoResponse
    /\ UNCHANGED <<store, windows, tabGroups, nEvents, lostUpdate, assigned,
                   recreated, closedBound>>
    /\ UNCHANGED schedVars
    /\ nResponses' = nResponses + Answered(response')
    /\ UNCHANGED <<imported, windowLastActive, auxVars>>

\* getState after the store read: windows.getAll gives the open windows and
\* the response carries the saved workspaces and the unsaved windows; a
\* rejection is answered by the catch block.
GetStateListed(i) ==
    /\ i \in DOMAIN tasks
    /\ tasks[i].kind = "state"
    /\ \E rejected \in Rejects("windows.getAll") :
          Respond(i, IF rejected
                     THEN Failure("getState")
                     ELSE [action |-> "getState", success |-> TRUE,
                           saved |-> tasks[i].ws,
                           unsaved |-> UnsavedList(tasks[i].ws)])
    /\ UNCHANGED <<store, windows, tabGroups, nRequests, nEvents, lostUpdate,
                   assigned, recreated, closedBound>>
    /\ UNCHANGED schedVars
    /\ nResponses' = nResponses + Answered(response')
    /\ UNCHANGED <<imported, windowLastActive, auxVars>>

\* focusWindow: the handler starts with windows.update({focused: true}).
FocusStart(windowId) ==
    /\ CanRequest
    /\ tasks' = Append(tasks, [NewTask("focus") EXCEPT !.win = windowId])
    /\ nRequests' = nRequests + 1
    /\ response' = NoResponse
    /\ UNCHANGED <<store, windows, tabGroups, nEvents, lostUpdate, assigned,
                   recreated, closedBound>>
    /\ UNCHANGED schedVars
    /\ nResponses' = nResponses + Answered(response')
    /\ UNCHANGED <<imported, windowLastActive, auxVars>>

\* focusWindow after windows.update, which rejects for a window that is not
\* open: the rejection is answered by the catch block.
FocusDone(i) ==
    /\ i \in DOMAIN tasks
    /\ tasks[i].kind = "focus"
    /\ \E rejected \in Rejects("windows.update") :
          Respond(i, IF rejected \/ tasks[i].win \notin OpenWindowIds
                     THEN Failure("focusWindow")
                     ELSE [action |-> "focusWindow", success |-> TRUE])
    /\ UNCHANGED <<store, windows, tabGroups, nRequests, nEvents, lostUpdate,
                   assigned, recreated, closedBound>>
    /\ UNCHANGED schedVars
    /\ nResponses' = nResponses + Answered(response')
    /\ UNCHANGED <<imported, windowLastActive, auxVars>>

\* The actions the router's switch has a case for.
Catalogue ==
    {"getState", "saveWindow", "openWorkspace", "focusWindow", "unsaveWorkspace",
     "renameWorkspace", "updateOrder", "exportWorkspaces", "importWorkspaces"}

\* Values of msg.action the switch has no case for: a name that is not an
\* action, a catalogued name in another case, and a message without action.
UnknownActions == {"deleteWorkspace", "GetState", Undefined}

\* A router that answers an action it does not know as done.
UnknownActionAccepted(action) == [action |-> action, success |-> TRUE]

\* The response of the default branch of the router.
UnknownActionResponse(action) ==
    [action |-> action, success |-> FALSE, error |-> "Unknown action"]

\* A message whose action has no case: the default branch answers at once,
\* and no handler is called.
Unrouted(action) ==
    /\ nRequests < MaxRequests
    /\ action \notin Catalogue
    /\ nRequests' = nRequests + 1
    /\ response' = UnknownActionResponse(action)
    /\ UNCHANGED <<store, windows, tabGroups, tasks, nEvents, lostUpdate, assigned,
                   recreated, closedBound>>
    /\ UNCHANGED schedVars
    /\ nResponses' = nResponses + Answered(response')
    /\ UNCHANGED <<imported, windowLastActive, auxVars>>

\* The data of an import request, msg.data, with the JS types of its parts:
\* whether it is an object at all, the type and value of data.workspaces and
\* of data.nextId, and whether the popup read it from a file the user chose
\* or took it from the response of exportWorkspaces.
Payload(isObject, workspacesType, workspaces, nextIdType, nextId, from) ==
    [isObject |-> isObject, workspacesType |-> workspacesType,
     workspaces |-> workspaces, nextIdType |-> nextIdType, nextId |-> nextId,
     from |-> from]

\* No import request has been served.
NoPayload == Payload(FALSE, "undefined", <<>>, "undefined", Null, "none")

\* The payloads of an import request: an export of one saved window, a
\* payload whose nextId is not above its ids, and one without nextId.
ImportedWorkspace(k) == NewWorkspace(k, 1, ContentA.tabs, <<>>)
ImportPayloads ==
    {Payload(TRUE, "object", [k \in {1} |-> ImportedWorkspace(k)], "number", 2, "file"),
     Payload(TRUE, "object", [k \in {2} |-> ImportedWorkspace(k)], "number", 1, "file"),
     Payload(TRUE, "object", [k \in {1} |-> ImportedWorkspace(k)], "undefined", Null, "file")}

\* Payloads of the wrong shape: nextId null, workspaces null, and data that
\* is no object.
IllTypedPayloads ==
    {Payload(TRUE, "object", [k \in {1} |-> ImportedWorkspace(k)], "null", Null, "file"),
     Payload(TRUE, "null", <<>>, "number", 2, "file"),
     Payload(FALSE, "undefined", <<>>, "undefined", Null, "file")}

\* The validation of importWorkspaces: data is a (non-null) object,
\* data.workspaces is truthy and data.nextId is not undefined.
ImportAccepts(data) ==
    /\ data.isObject
    /\ data.workspacesType \notin {"undefined", "null"}
    /\ data.nextIdType # "undefined"

\* An importWorkspaces that writes what it is given before it validates.
ImportResultUnvalidated(st, data) == setWorkspaces(data.workspaces, data.nextId)

\* An importWorkspaces that adds the payload's workspaces to those stored.
ImportResultMerged(st, data) ==
    IF ImportAccepts(data)
    THEN setWorkspaces([k \in DOMAIN st.workspaces \cup DOMAIN data.workspaces |->
                           IF k \in DOMAIN data.workspaces
                           THEN data.workspaces[k]
                           ELSE st.workspaces[k]],
                       data.nextId)
    ELSE st

\* The store after importWorkspaces: an accepted payload replaces both keys.
ImportResult(st, data) ==
    IF ImportAccepts(data)
    THEN setWorkspaces(data.workspaces, data.nextId)
    ELSE st

ImportResponse(data) ==
    IF ImportAccepts(data)
    THEN [action |-> "importWorkspaces", success |-> TRUE]
    ELSE [action |-> "importWorkspaces", success |-> FALSE,
          error |-> "Invalid import data."]

\* importWorkspaces: the payload is validated and, when accepted, written;
\* nothing is read.
Import(data) ==
    /\ nRequests < MaxRequests
    /\ nRequests' = nRequests + 1
    /\ store' \in StoreWritten(ImportResult(store, data))
    /\ response' = ImportResponse(data)
    /\ IF ImportAccepts(data)
       THEN /\ closedBound' = {}
            /\ tasks' = Reopened(tasks, DOMAIN data.workspaces \cup closedBound
                                        \cup DOMAIN store.workspaces)
       ELSE UNCHANGED <<closedBound, tasks>>
    /\ UNCHANGED <<windows, tabGroups, nEvents, lostUpdate, assigned, recreated>>
    /\ UNCHANGED schedVars
    /\ nResponses' = nResponses + Answered(response')
    /\ imported' = data
    /\ UNCHANGED <<windowLastActive, auxVars>>

\* An exportWorkspaces that leaves the window bindings out of what it sends.
ExportedUnbound(st) ==
    [workspaces |-> [k \in DOMAIN getWorkspaces(st).workspaces |->
                        [getWorkspaces(st).workspaces[k] EXCEPT !.windowId = Null]],
     nextId |-> getWorkspaces(st).nextId]

\* The data exportWorkspaces responds with: what getWorkspaces returns.
Exported(st) ==
    [workspaces |-> getWorkspaces(st).workspaces, nextId |-> getWorkspaces(st).nextId]

\* exportWorkspaces: the store is read and sent back.
Export ==
    /\ nRequests < MaxRequests
    /\ nRequests' = nRequests + 1
    /\ \E st \in StoreRead :
          response' = [action |-> "exportWorkspaces", success |-> TRUE,
                       data |-> Exported(st)]
    /\ UNCHANGED <<store, windows, tabGroups, tasks, nEvents, lostUpdate, assigned,
                   recreated, closedBound>>
    /\ UNCHANGED schedVars
    /\ nResponses' = nResponses + Answered(response')
    /\ UNCHANGED <<imported, windowLastActive, auxVars>>

\* The payload the popup sends when it imports what exportWorkspaces has just
\* responded with.
AsPayload(data) ==
    Payload(TRUE, "object", data.workspaces, "number", data.nextId, "export")

ExportedPayloads ==
    IF response.action = "exportWorkspaces" /\ response.success
    THEN {AsPayload(response.data)}
    ELSE {}

---------------------------------------------------------------------------
(* The window events. *)

\* The workspaces object with every workspace of the closed window unbound.
Unbound(workspaces, closedWindowId) ==
    [k \in DOMAIN workspaces |->
        IF workspaces[k].windowId = closedWindowId
        THEN [workspaces[k] EXCEPT !.windowId = Null]
        ELSE workspaces[k]]

BoundTo(workspaces, windowId) ==
    {k \in DOMAIN workspaces : workspaces[k].windowId = windowId}

\* A window is closed: its tabs are removed (tabs.onRemoved notifies the
\* scheduler) and windows.onRemoved starts unsetWindowIdForClosedWorkspaces,
\* which reads the store.
CloseWindow(w) ==
    /\ nEvents < MaxEvents
    /\ Len(tasks) < MaxTasks
    /\ w \in OpenWindowIds
    /\ windows' = [windows EXCEPT ![w] = ClosedWindow]
    /\ Notify(w)
    /\ \E st \in StoreRead :
          tasks' = Append(tasks,
              [ReadInto(NewTask("unbind"), st) EXCEPT
                  !.win = w,
                  !.bound = BoundTo(getWorkspaces(st).workspaces, w)])
    /\ nEvents' = nEvents + 1
    /\ response' = NoResponse
    /\ UNCHANGED <<store, tabGroups, nRequests, lostUpdate, assigned, recreated,
                   closedBound>>
    /\ nResponses' = nResponses + Answered(response')
    /\ UNCHANGED <<imported, windowLastActive, auxVars>>

\* unsetWindowIdForClosedWorkspaces after the store read: the store is
\* written when a workspace was bound to the window.
UnbindWrite(i) ==
    /\ i \in DOMAIN tasks
    /\ tasks[i].kind = "unbind"
    /\ LET t == tasks[i]
           cur == getWorkspaces(store)
       IN  /\ IF BoundTo(t.ws, t.win) # {}
              THEN /\ store' \in StoreWritten(setWorkspaces(Unbound(t.ws, t.win), t.nextId))
                   /\ lostUpdate' = (lostUpdate \/
                          Overwrites(store',
                              setWorkspaces(Unbound(cur.workspaces, t.win), cur.nextId)))
              ELSE UNCHANGED <<store, lostUpdate>>
           /\ closedBound' = closedBound \cup t.bound
    /\ tasks' = RemoveAt(tasks, i)
    /\ response' = NoResponse
    /\ UNCHANGED <<windows, tabGroups, nRequests, nEvents, assigned, recreated>>
    /\ UNCHANGED schedVars
    /\ nResponses' = nResponses + Answered(response')
    /\ UNCHANGED <<imported, windowLastActive, auxVars>>

---------------------------------------------------------------------------
(* The specification. *)

\* A fresh profile: nothing stored, two windows open, no event yet.
Init ==
    /\ store = [workspaces |-> <<>>, nextId |-> 0]
    /\ windows = <<OpenWindow(ContentA), OpenWindow(ContentC)>>
    /\ tabGroups \in BOOLEAN
    /\ pendingUpdates = <<>>
    /\ updateTimer = Null
    /\ timers = {}
    /\ nextTimerId = 1
    /\ tasks = <<>>
    /\ nRequests = 0
    /\ nEvents = 0
    /\ burst = NoBurst
    /\ owed = {}
    /\ lostUpdate = FALSE
    /\ assigned = <<>>
    /\ recreated = {}
    /\ closedBound = {}
    /\ response = NoResponse
    /\ nResponses = 0
    /\ imported = NoPayload
    /\ windowLastActive = <<>>
    /\ failing = {}
    /\ arg = Null
    /\ result = Null

\* The store after windows 1 and 2 of the fresh profile have been saved, one
\* after the other.
SavedStore ==
    LET t1 == [NewTask("save") EXCEPT
                  !.win = 1, !.tabs = ContentA.tabs,
                  !.ranges = IF tabGroups
                             THEN GroupRanges(ContentA.tabs, ContentA.groups)
                             ELSE <<>>]
        t2 == [NewTask("save") EXCEPT
                  !.win = 2, !.tabs = ContentC.tabs,
                  !.ranges = IF tabGroups
                             THEN GroupRanges(ContentC.tabs, ContentC.groups)
                             ELSE <<>>]
        s1 == SaveResult(<<>>, 1, t1)
    IN  SaveResult(s1.workspaces, s1.nextId, t2)

\* The profile after its two windows have been saved.
InitSaved ==
    /\ tabGroups \in BOOLEAN
    /\ store = SavedStore
    /\ windows = <<OpenWindow(ContentA), OpenWindow(ContentC)>>
    /\ pendingUpdates = <<>>
    /\ updateTimer = Null
    /\ timers = {}
    /\ nextTimerId = 1
    /\ tasks = <<>>
    /\ nRequests = 0
    /\ nEvents = 0
    /\ burst = NoBurst
    /\ owed = {}
    /\ lostUpdate = FALSE
    /\ assigned = <<1, 2>>
    /\ recreated = {}
    /\ closedBound = {}
    /\ response = NoResponse
    /\ nResponses = 0
    /\ imported = NoPayload
    /\ windowLastActive = <<>>
    /\ failing = {}
    /\ arg = Null
    /\ result = Null

Next ==
    \/ \E w \in DOMAIN windows, c \in Contents :
          nEvents < MaxLifeEvents /\ TabsChanged(w, c)
    \/ \E w \in DOMAIN windows : nEvents < MaxLifeEvents /\ CloseWindow(w)
    \/ \E t \in timers : TimerFires(t)
    \/ \E i \in DOMAIN tasks :
          \/ PassIterate(i)
          \/ GroupsResolved(i)
          \/ PassFinish(i)
          \/ SaveQueried(i)
          \/ SaveRead(i)
          \/ SaveWrite(i)
          \/ UnsaveWrite(i)
          \/ RenameWrite(i)
          \/ UpdateOrderWrite(i)
          \/ OpenFocus(i)
          \/ OpenReplay(i)
          \/ OpenPersist(i)
          \/ UnbindWrite(i)
    \/ \E w \in DOMAIN windows : SaveStart(w)
    \/ \E k \in WorkspaceIds : UnsaveStart(k)
    \/ \E k \in WorkspaceIds, s \in NewTitles : RenameStart(k, s)
    \/ \E l \in OrderLists : UpdateOrderStart(l)
    \/ \E k \in WorkspaceIds : OpenStart(k)
    \/ \E d \in ImportPayloads : Import(d)

Spec == InitSaved /\ [][Next]_vars

SpecFresh == Init /\ [][Next]_vars

\* The scheduler and the reconciler alone: tab events, the clock, the timer
\* and the passes.
NextSched ==
    \/ \E w \in DOMAIN windows, c \in Contents : TabsChanged(w, c)
    \/ \E t \in timers : TimerFires(t)
    \/ \E i \in DOMAIN tasks :
          \/ PassIterate(i)
          \/ GroupsResolved(i)
          \/ PassFinish(i)

SpecSched == InitSaved /\ [][NextSched]_vars

\* The requests are served one at a time: a message is delivered when no
\* handler is in flight.  Only saveWindow and unsaveWorkspace are requested.
NextSeq ==
    \/ \E i \in DOMAIN tasks :
          \/ SaveQueried(i)
          \/ SaveRead(i)
          \/ SaveWrite(i)
          \/ UnsaveWrite(i)
    \/ \E w \in DOMAIN windows : tasks = <<>> /\ SaveStart(w)
    \/ \E k \in WorkspaceIds : tasks = <<>> /\ UnsaveStart(k)

SpecSeq == InitSaved /\ [][NextSeq]_vars

\* The scheduler and the reconciler with renameWorkspace requests.
NextTitle ==
    \/ \E w \in DOMAIN windows, c \in Contents :
          nEvents < MaxLifeEvents /\ TabsChanged(w, c)
    \/ \E t \in timers : TimerFires(t)
    \/ \E i \in DOMAIN tasks :
          \/ PassIterate(i)
          \/ GroupsResolved(i)
          \/ PassFinish(i)
    \/ \E k \in WorkspaceIds, s \in NewTitles :
          nRequests < MaxOpRequests /\ RenameStart(k, s)
    \/ \E i \in DOMAIN tasks : RenameWrite(i)

SpecTitle == InitSaved /\ [][NextTitle]_vars

\* Window closes and openWorkspace requests, with the passes the closes
\* cause.
NextOpen ==
    \/ \E w \in DOMAIN windows : nEvents < MaxLifeEvents /\ CloseWindow(w)
    \/ \E t \in timers : TimerFires(t)
    \/ \E i \in DOMAIN tasks :
          \/ PassIterate(i)
          \/ GroupsResolved(i)
          \/ PassFinish(i)
          \/ UnbindWrite(i)
          \/ OpenFocus(i)
          \/ OpenReplay(i)
          \/ OpenPersist(i)
    \/ \E k \in WorkspaceIds : nRequests < MaxOpRequests /\ OpenStart(k)

SpecOpen == InitSaved /\ [][NextOpen]_vars

\* The profile after its two windows have been saved, in a browser whose
\* tabs.query may reject.
InitClose ==
    /\ tabGroups \in BOOLEAN
    /\ store = SavedStore
    /\ windows = <<OpenWindow(ContentA), OpenWindow(ContentC)>>
    /\ pendingUpdates = <<>>
    /\ updateTimer = Null
    /\ timers = {}
    /\ nextTimerId = 1
    /\ tasks = <<>>
    /\ nRequests = 0
    /\ nEvents = 0
    /\ burst = NoBurst
    /\ owed = {}
    /\ lostUpdate = FALSE
    /\ assigned = <<1, 2>>
    /\ recreated = {}
    /\ closedBound = {}
    /\ response = NoResponse
    /\ nResponses = 0
    /\ imported = NoPayload
    /\ windowLastActive = <<>>
    /\ failing \in {{}, {"tabs.query"}}
    /\ arg = Null
    /\ result = Null

\* Tab events and window closes, with the passes they cause and the unbinding
\* of the workspaces of a closed window.
NextClose ==
    \/ \E w \in DOMAIN windows, c \in Contents :
          nEvents < MaxLifeEvents /\ TabsChanged(w, c)
    \/ \E w \in DOMAIN windows : nEvents < MaxLifeEvents /\ CloseWindow(w)
    \/ \E t \in timers : TimerFires(t)
    \/ \E i \in DOMAIN tasks :
          \/ PassIterate(i)
          \/ GroupsResolved(i)
          \/ PassFinish(i)
          \/ UnbindWrite(i)

SpecClose == InitClose /\ [][NextClose]_vars

\* The store after a window with the tabs and groups of ContentG and window 2
\* have been saved and a pass has reconciled the first, which has since been
\* closed and unbound.
GroupedStore ==
    LET t1 == [NewTask("save") EXCEPT !.win = Null, !.tabs = ContentG.tabs]
        t2 == [NewTask("save") EXCEPT !.win = 2, !.tabs = ContentC.tabs]
        s1 == SaveResult(<<>>, 1, t1)
        s2 == SaveResult(s1.workspaces, s1.nextId, t2)
    IN  setWorkspaces(
            [s2.workspaces EXCEPT
                ![1].groupRanges =
                    IF tabGroups THEN GroupRanges(ContentG.tabs, ContentG.groups)
                    ELSE <<>>],
            s2.nextId)

\* The profile with a closed workspace that has group ranges, in a browser
\* whose calls in one of the sets F may reject or be slow.
InitGrouped(F) ==
    /\ tabGroups \in BOOLEAN
    /\ store = GroupedStore
    /\ windows = <<ClosedWindow, OpenWindow(ContentC)>>
    /\ pendingUpdates = <<>>
    /\ updateTimer = Null
    /\ timers = {}
    /\ nextTimerId = 1
    /\ tasks = <<>>
    /\ nRequests = 0
    /\ nEvents = 0
    /\ burst = NoBurst
    /\ owed = {}
    /\ lostUpdate = FALSE
    /\ assigned = <<1, 2>>
    /\ recreated = {}
    /\ closedBound = {}
    /\ response = NoResponse
    /\ nResponses = 0
    /\ imported = NoPayload
    /\ windowLastActive = <<>>
    /\ failing \in F
    /\ arg = Null
    /\ result = Null

\* openWorkspace requests alone.
NextPoll ==
    \/ \E k \in WorkspaceIds : nRequests < MaxOpRequests /\ OpenStart(k)
    \/ \E i \in DOMAIN tasks :
          \/ OpenFocus(i)
          \/ OpenReplay(i)
          \/ OpenPersist(i)

\* openWorkspace in a browser that may be slow at creating the tabs of a new
\* window; a handler that can take a step takes it.
SpecPoll ==
    /\ InitGrouped({{}, {"tabs.loading"}})
    /\ [][NextPoll]_vars
    /\ \A i \in 1..MaxTasks :
          WF_vars(OpenFocus(i) \/ OpenReplay(i) \/ OpenPersist(i))

\* The most tab events a behaviour of the passes alone holds.
MaxPassEvents == 2

\* Tab events, timers and passes, in a browser whose tabs.query may reject.
NextPass ==
    \/ \E w \in DOMAIN windows, c \in Contents :
          nEvents < MaxPassEvents /\ TabsChanged(w, c)
    \/ \E t \in timers : TimerFires(t)
    \/ \E i \in DOMAIN tasks :
          \/ PassIterate(i)
          \/ GroupsResolved(i)
          \/ PassFinish(i)

SpecPass == InitClose /\ [][NextPass]_vars

\* saveWindow and unsaveWorkspace requests, served as they come, while windows
\* are closed and unbound.
NextSave ==
    \/ \E w \in DOMAIN windows : nEvents < MaxLifeEvents /\ CloseWindow(w)
    \/ \E w \in DOMAIN windows : SaveStart(w)
    \/ \E k \in WorkspaceIds : UnsaveStart(k)
    \/ \E i \in DOMAIN tasks :
          \/ UnbindWrite(i)
          \/ SaveQueried(i)
          \/ SaveRead(i)
          \/ SaveWrite(i)
          \/ UnsaveWrite(i)

SpecSave == InitSaved /\ [][NextSave]_vars

\* openWorkspace, unsaveWorkspace and renameWorkspace requests, for the
\* stored ids and for one that is not stored.
NextLookup ==
    \/ \E k \in WorkspaceIds : OpenStart(k)
    \/ \E k \in WorkspaceIds : UnsaveStart(k)
    \/ \E k \in WorkspaceIds, s \in NewTitles : RenameStart(k, s)
    \/ \E i \in DOMAIN tasks :
          \/ OpenFocus(i)
          \/ OpenReplay(i)
          \/ OpenPersist(i)
          \/ UnsaveWrite(i)
          \/ RenameWrite(i)

SpecLookup == InitSaved /\ [][NextLookup]_vars

\* The stores an export or an import finds: the never-written one, the two
\* saved windows, those with workspace 1 renamed, and those with workspace 1
\* unsaved.
PortStores ==
    {[store |-> [workspaces |-> <<>>, nextId |-> 0], assigned |-> <<>>],
     [store |-> SavedStore, assigned |-> <<1, 2>>],
     [store |-> RenameResult(SavedStore.workspaces, SavedStore.nextId,
                             [NewTask("rename") EXCEPT !.id = 1, !.title = "X"]),
      assigned |-> <<1, 2>>],
     [store |-> UnsaveResult(SavedStore.workspaces, SavedStore.nextId,
                             [NewTask("unsave") EXCEPT !.id = 1]),
      assigned |-> <<1, 2>>]}

InitPort ==
    /\ tabGroups \in BOOLEAN
    /\ \E p \in PortStores : store = p.store /\ assigned = p.assigned
    /\ windows = <<OpenWindow(ContentA), OpenWindow(ContentC)>>
    /\ pendingUpdates = <<>>
    /\ updateTimer = Null
    /\ timers = {}
    /\ nextTimerId = 1
    /\ tasks = <<>>
    /\ nRequests = 0
    /\ nEvents = 0
    /\ burst = NoBurst
    /\ owed = {}
    /\ lostUpdate = FALSE
    /\ recreated = {}
    /\ closedBound = {}
    /\ response = NoResponse
    /\ nResponses = 0
    /\ imported = NoPayload
    /\ windowLastActive = <<>>
    /\ failing = {}
    /\ arg = Null
    /\ result = Null

\* Exports and imports, with saveWindow, unsaveWorkspace and renameWorkspace
\* requests beside them.
NextPort ==
    \/ Export
    \/ \E d \in ImportPayloads \cup IllTypedPayloads \cup ExportedPayloads : Import(d)
    \/ \E w \in DOMAIN windows : SaveStart(w)
    \/ \E k \in WorkspaceIds : UnsaveStart(k)
    \/ \E k \in WorkspaceIds, s \in NewTitles : RenameStart(k, s)
    \/ \E i \in DOMAIN tasks :
          \/ SaveQueried(i)
          \/ SaveRead(i)
          \/ SaveWrite(i)
          \/ UnsaveWrite(i)
          \/ RenameWrite(i)

SpecPort == InitPort /\ [][NextPort]_vars

\* getState requests while windows are focused, opened and closed.
NextState ==
    \/ \E w \in OpenWindowIds \cup {-1} : FocusChanged(w)
    \/ nRequests < MaxOpRequests /\ GetStateStart
    \/ \E c \in Contents : nEvents < MaxLifeEvents /\ WindowOpened(c)
    \/ \E w \in DOMAIN windows : nEvents < MaxLifeEvents /\ CloseWindow(w)
    \/ \E i \in DOMAIN tasks :
          \/ GetStateListed(i)
          \/ UnbindWrite(i)

SpecState == InitPort /\ [][NextState]_vars

---------------------------------------------------------------------------
(* The router with every request it can get, and calls that can reject. *)

\* One of the stores of PortStores, the second window closed since, and every
\* platform and store call able to reject.
InitLive ==
    /\ tabGroups \in BOOLEAN
    /\ \E p \in PortStores : store = p.store /\ assigned = p.assigned
    /\ windows = <<OpenWindow(ContentA), ClosedWindow>>
    /\ pendingUpdates = <<>>
    /\ updateTimer = Null
    /\ timers = {}
    /\ nextTimerId = 1
    /\ tasks = <<>>
    /\ nRequests = 0
    /\ nEvents = 0
    /\ burst = NoBurst
    /\ owed = {}
    /\ lostUpdate = FALSE
    /\ recreated = {}
    /\ closedBound = {}
    /\ response = NoResponse
    /\ nResponses = 0
    /\ imported = NoPayload
    /\ windowLastActive = <<>>
    /\ failing = Calls
    /\ arg = Null
    /\ result = Null

\* A message arrives at the router.
Request ==
    \/ GetStateStart
    \/ \E w \in WindowIds : SaveStart(w)
    \/ \E k \in WorkspaceIds : OpenStart(k)
    \/ \E w \in WindowIds : FocusStart(w)
    \/ \E k \in WorkspaceIds : UnsaveStart(k)
    \/ \E k \in WorkspaceIds, s \in NewTitles : RenameStart(k, s)
    \/ \E l \in OrderLists : UpdateOrderStart(l)
    \/ UpdateOrderNoList
    \/ Export
    \/ \E d \in ImportPayloads \cup IllTypedPayloads : Import(d)
    \/ \E a \in UnknownActions : Unrouted(a)

\* The handler that is task i goes on after the call it awaited has settled.
HandlerStep(i) ==
    \/ GetStateListed(i)
    \/ SaveQueried(i)
    \/ SaveRead(i)
    \/ SaveWrite(i)
    \/ OpenFocus(i)
    \/ OpenReplay(i)
    \/ OpenPersist(i)
    \/ FocusDone(i)
    \/ UnsaveWrite(i)
    \/ RenameWrite(i)
    \/ UpdateOrderWrite(i)

NextLive ==
    \/ nRequests < MaxOpRequests /\ Request
    \/ \E i \in DOMAIN tasks : HandlerStep(i)

\* Every call a handler awaits settles, and the event loop then runs the
\* handler's continuation: a handler that can go on does go on.
SpecLive ==
    /\ InitLive
    /\ [][NextLive]_vars
    /\ \A i \in 1..MaxTasks : WF_vars(HandlerStep(i))

---------------------------------------------------------------------------
(* The functions of the engine applied on their own. *)

engineVars == <<store, windows, tabGroups, pendingUpdates, updateTimer, timers,
                nextTimerId, tasks, nRequests, nEvents, burst, owed,
                lostUpdate, assigned, recreated, closedBound, response,
                nResponses, imported, windowLastActive, failing>>

NotApplied == [done |-> FALSE]
Returned(v) == [done |-> TRUE, value |-> v]

\* The engine at rest on a fresh profile, and an argument drawn from S.
InitApply(S) ==
    /\ store = [workspaces |-> <<>>, nextId |-> 0]
    /\ windows = <<OpenWindow(ContentA), OpenWindow(ContentC)>>
    /\ tabGroups = FALSE
    /\ pendingUpdates = <<>>
    /\ updateTimer = Null
    /\ timers = {}
    /\ nextTimerId = 1
    /\ tasks = <<>>
    /\ nRequests = 0
    /\ nEvents = 0
    /\ burst = NoBurst
    /\ owed = {}
    /\ lostUpdate = FALSE
    /\ assigned = <<>>
    /\ recreated = {}
    /\ closedBound = {}
    /\ response = NoResponse
    /\ nResponses = 0
    /\ imported = NoPayload
    /\ windowLastActive = <<>>
    /\ failing = {}
    /\ arg \in S
    /\ result = NotApplied

\* sanitizeUrls(urls) is called.
ApplySanitizeUrls ==
    /\ ~result.done
    /\ result' = Returned(sanitizeUrls(arg))
    /\ UNCHANGED <<engineVars, arg>>

SpecSanitize == InitApply(ListsUpTo(Urls, MaxLen)) /\ [][ApplySanitizeUrls]_vars

\* The ids of the workspaces a reorder is applied to on its own, and the ids
\* its list is drawn from.
OrderIds == {1, 2, 3}

\* A stored workspaces object with the ids S, none of them reordered yet.
StoredWorkspaces(S) == [k \in S |-> NewWorkspace(k, Null, ContentA.tabs, <<>>)]

OrderArgs ==
    {[workspaces |-> StoredWorkspaces(S), newOrder |-> l] :
        S \in SUBSET OrderIds, l \in ListsUpTo(OrderIds, MaxLen)}

\* updateOrder(newOrder) is served on the stored workspaces: what it writes.
ApplyUpdateOrder ==
    /\ ~result.done
    /\ result' = Returned(UpdateOrderResult(arg.workspaces,
                                            Max(OrderIds) + 1,
                                            [NewTask("order") EXCEPT !.order = arg.newOrder]))
    /\ UNCHANGED <<engineVars, arg>>

SpecOrder == InitApply(OrderArgs) /\ [][ApplyUpdateOrder]_vars

\* The most often one window is reconciled with the same live tabs.
MaxPasses == 2

\* The ids of the workspaces a reconciliation is applied to on its own.
SharedIds == {1, 2, 3}

\* A stored workspace: saved from a window with the tabs of ContentC, bound to
\* windowId or to none, renamed to customTitle or never renamed.
StoredWorkspace(k, windowId, customTitle) ==
    IF customTitle = Undefined
    THEN NewWorkspace(k, windowId, ContentC.tabs, <<>>)
    ELSE [NewWorkspace(k, windowId, ContentC.tabs, <<>>) EXCEPT
             !.customTitle = customTitle, !.title = customTitle]

\* What a reconciliation is given: the workspaces object, where several
\* workspaces can be bound to one window, the window, its tabs and the group
\* ranges computed from what tabGroups.query answered.
ReconcileArgs ==
    {[workspaces |-> [k \in SharedIds |->
                         StoredWorkspace(k, bound[k], custom[k])],
      winId |-> w, tabs |-> c.tabs,
      ranges |-> IF groups THEN GroupRanges(c.tabs, c.groups) ELSE <<>>] :
        bound \in [SharedIds -> {1, 2, Null}],
        custom \in [SharedIds -> NewTitles \cup {Undefined}],
        w \in {1, 2}, c \in Contents, groups \in BOOLEAN}

\* The workspaces object as the next reconciliation finds it.
Reconciled == IF result.done THEN result.value ELSE arg.workspaces

\* The window arg.winId is reconciled with the tabs arg.tabs, once more if it
\* has been before.
ApplyReconcile ==
    /\ IF result.done THEN result.passes < MaxPasses ELSE TRUE
    /\ result' = [done |-> TRUE,
                  value |-> ApplyUpdate(Reconciled, arg.winId, arg.tabs, arg.ranges),
                  passes |-> IF result.done THEN result.passes + 1 ELSE 1]
    /\ UNCHANGED <<engineVars, arg>>

SpecReconcile == InitApply(ReconcileArgs) /\ [][ApplyReconcile]_vars

\* What is not a window id: undefined (the field is absent), a string, and
\* windows.WINDOW_ID_NONE.
InvalidWindowIds ==
    {JsValue("undefined", Null), JsValue("string", Null), Number(-1)}

\* The state of the scheduler as a call finds it.
Scheduler == [pendingUpdates |-> pendingUpdates, updateTimer |-> updateTimer,
              timers |-> timers]

\* scheduleWorkspaceUpdate(arg) is called; what it returns is of no use, so
\* the scheduler as the call found it is kept in its place.
ApplyScheduleWorkspaceUpdate ==
    /\ ~result.done
    /\ scheduleWorkspaceUpdate(arg)
    /\ result' = Returned(Scheduler)
    /\ UNCHANGED <<store, windows, tabGroups, tasks, nRequests, nEvents, burst,
                   owed, lostUpdate, assigned, recreated, closedBound,
                   response, nResponses, imported, windowLastActive, failing,
                   arg>>

\* Tab events, timers and passes on a fresh profile, and one call of the
\* scheduler with what is not a window id.
NextNotify ==
    \/ \E w \in DOMAIN windows, c \in Contents :
          nEvents < MaxLifeEvents /\ TabsChanged(w, c)
    \/ \E t \in timers : TimerFires(t)
    \/ \E i \in DOMAIN tasks :
          \/ PassIterate(i)
          \/ PassFinish(i)
    \/ ApplyScheduleWorkspaceUpdate

SpecNotify == InitApply(InvalidWindowIds) /\ [][NextNotify]_vars

---------------------------------------------------------------------------
(* Properties. *)

\* The updates a pass has issued for windows with tabs: those applied to its
\* workspaces object and those still waiting for tabGroups.query.
Issued(t) == t.applied \o t.deferred

\* The pass task i has written the store and not yet cleared the pending set.
PassWrote(i) == tasks[i].kind = "pass" /\ tasks[i].pc = "clear"

C2_IdMonotonic ==
    \A a, b \in DOMAIN assigned : a < b => assigned[a] < assigned[b]

\* A window has been saved after a workspace was unsaved.
C2_Witness ==
    /\ Len(assigned) > 2
    /\ \E a \in DOMAIN assigned :
          /\ a < Len(assigned)
          /\ assigned[a] \notin DOMAIN store.workspaces

\* C3: in every reachable state nextId is greater than every stored workspace
\* id, and no step decreases the stored nextId.
C3_NextIdAboveIds ==
    /\ [](\A k \in DOMAIN store.workspaces : k < getWorkspaces(store).nextId)
    /\ [][getWorkspaces(store).nextId' >= getWorkspaces(store).nextId]_vars

\* Whether window w, which a notification is owed for, is going to be read:
\* a pass that is iterating has it ahead, or it is pending and a timer is set.
WillBeVisited(w) ==
    \/ \E i \in DOMAIN tasks :
          /\ tasks[i].kind = "pass"
          /\ tasks[i].pc \in {"start", "query"}
          /\ \E j \in DOMAIN pendingUpdates :
                j > tasks[i].idx /\ pendingUpdates[j] = w
    \/ w \in Range(pendingUpdates) /\ timers # {}

\* C4: debounce coalescing.  After a run of notifications for one window,
\* each made before the timer of the one before could fire and with no pass
\* in flight, exactly one pass reads the window: no second pass does, and
\* until the one pass has, it is going to.
C4_Coalesced ==
    burst.n > 0 =>
        /\ burst.runs <= 1
        /\ burst.runs = 0 => WillBeVisited(burst.w)

\* C5: a window notified while a pass is in flight is read afterwards, by
\* that pass or by one the notification's timer starts.
C5_Captured == \A w \in owed : WillBeVisited(w)

\* C6: at most one timer is set and neither fired nor cancelled.
C6_SingleTimer == Cardinality(timers) <= 1

\* The update the pass issued last for window w.
LastIssued(t, w) ==
    LET at == {j \in DOMAIN Issued(t) : Issued(t)[j].win = w}
    IN  Issued(t)[Max(at)]

\* C7: the store a pass writes holds, for every window the pass found tabs
\* in and every workspace bound to it, the tabs and group ranges the pass
\* read.
C7_PassPersistsAll ==
    [][\A i \in DOMAIN tasks :
          (/\ i \in DOMAIN tasks'
           /\ tasks[i].kind = "pass"
           /\ tasks[i].pc # "clear"
           /\ tasks'[i].kind = "pass"
           /\ tasks'[i].pc = "clear")
          => \A e \in Range(Issued(tasks'[i])), k \in DOMAIN store'.workspaces :
                store'.workspaces[k].windowId = e.win
                    => /\ store'.workspaces[k].tabs
                              = TabUrls(LastIssued(tasks'[i], e.win).tabs)
                       /\ store'.workspaces[k].groupRanges
                              = LastIssued(tasks'[i], e.win).ranges]_vars

\* C8: no write of a handler overwrites a change that was committed after
\* the handler read the store.
C8_AtomicReadModifyWrite == ~lostUpdate

\* C9: a workspace whose window was closed, the window-removed event having
\* been handled, has windowId null until it is opened again.
C9_ClosedStaysUnbound ==
    \A k \in closedBound :
        k \in DOMAIN store.workspaces => store.workspaces[k].windowId = Null

\* The windows of the profile before any is created.
InitialWindows == {1, 2}

\* C10: open-or-recreate.  Every recreation has created one window, whose
\* URLs are the sanitized stored URLs; the response "New window opened."
\* carries the id of the window created, and the workspace is stored bound to
\* it; and the window id a recreation replaced is not in the unsaved list.
C10_OpenOrRecreate ==
    /\ Cardinality(DOMAIN windows \ InitialWindows) = Cardinality(recreated)
    /\ \A r \in recreated :
          /\ r.new \in DOMAIN windows \ InitialWindows
          /\ windows[r.new].open => TabUrls(windows[r.new].tabs) = sanitizeUrls(r.tabs)
          /\ r.old # Null => r.old \notin UnsavedWindowIds(store.workspaces)
    /\ (response.action = "openWorkspace" /\ response.success
            /\ response.message = "New window opened.")
        => \E r \in recreated :
              /\ r.new = response.windowId
              /\ r.id \in DOMAIN store.workspaces
              /\ store.workspaces[r.id].windowId = r.new

\* openWorkspace has answered for a workspace that was bound to a window that
\* no longer exists, and the window it created holds a URL that was replaced.
C10_Witness ==
    /\ response.action = "openWorkspace"
    /\ response.success
    /\ response.message = "New window opened."
    /\ \E r \in recreated :
          /\ r.new = response.windowId
          /\ r.old # Null
          /\ ~windows[r.old].open
          /\ windows[r.new].open
          /\ sanitizeUrls(r.tabs) # r.tabs

\* The step is one of handler i: the handler ends, or it alone moves on.
Advances(i) ==
    \/ tasks' = RemoveAt(tasks, i)
    \/ /\ Len(tasks') = Len(tasks)
       /\ tasks'[i] # tasks[i]
       /\ \A j \in DOMAIN tasks : j # i => tasks'[j] = tasks[j]

\* C11: an openWorkspace that read a workspace whose windowId is set and
\* whose window can be focused answers success with "Window focused." in
\* its next step, and that step creates no window and leaves the store
\* (workspaces and nextId) as it is.
C11_FocusOnly ==
    [][\A i \in DOMAIN tasks :
          (/\ tasks[i].kind = "open"
           /\ tasks[i].pc = "start"
           /\ tasks[i].id \in DOMAIN tasks[i].ws
           /\ tasks[i].ws[tasks[i].id].windowId \in OpenWindowIds
           /\ Advances(i))
          => /\ response' = [action |-> "openWorkspace", success |-> TRUE,
                              message |-> "Window focused."]
             /\ tasks' = RemoveAt(tasks, i)
             /\ DOMAIN windows' = DOMAIN windows
             /\ windows' = windows
             /\ store' = store
             /\ recreated' = recreated]_vars

\* openWorkspace has answered that it focused the window of a workspace that
\* is stored with an open window.
C11_Witness ==
    /\ response.action = "openWorkspace"
    /\ response.success
    /\ response.message = "Window focused."
    /\ recreated = {}
    /\ \E k \in DOMAIN store.workspaces :
          store.workspaces[k].windowId \in OpenWindowIds

\* Whether a URL starts with http:// or https:// or is exactly about:blank.
OnAllowList(u) ==
    \/ \E n \in 0..Len(u) : SubSeq(u, 1, n) \in {Http, Https}
    \/ u = AboutBlank

\* C12: sanitizeUrls returns a list as long as its argument, in which every
\* URL that starts with http:// or https:// or is exactly about:blank is
\* kept and every other URL is about:blank; so every URL openWorkspace hands
\* to windows.create is on the allow-list.
C12_Sanitized ==
    result.done =>
        /\ Len(result.value) = Len(arg)
        /\ \A i \in 1..Len(arg) :
              result.value[i] = IF OnAllowList(arg[i]) THEN arg[i] ELSE AboutBlank
        /\ \A i \in DOMAIN UrlsToOpen([tabs |-> arg]) :
              OnAllowList(UrlsToOpen([tabs |-> arg])[i])

\* sanitizeUrls has returned for a list that holds a URL it keeps (not
\* about:blank) and a URL it replaces.
C12_Witness ==
    /\ result.done
    /\ \E i, j \in 1..Len(arg) :
          /\ OnAllowList(arg[i])
          /\ arg[i] # AboutBlank
          /\ ~OnAllowList(arg[j])

\* C13: reorder completeness.  After updateOrder(L) every workspace whose id
\* L lists has as order an index (from 0) at which L lists it, and the
\* workspaces L does not list have the orders Len(L), Len(L) + 1, ..., one
\* each.
C13_ReorderComplete ==
    result.done =>
        LET ws == result.value.workspaces
            L == arg.newOrder
            unlisted == {k \in DOMAIN ws : \A j \in 1..Len(L) : L[j] # k}
        IN  /\ DOMAIN ws = DOMAIN arg.workspaces
            /\ \A k \in DOMAIN ws \ unlisted :
                  /\ ws[k].order \in 0..(Len(L) - 1)
                  /\ L[ws[k].order + 1] = k
            /\ {ws[k].order : k \in unlisted}
                  = Len(L)..(Len(L) + Cardinality(unlisted) - 1)

\* updateOrder([3, 1]) has been served on the workspaces {1, 2, 3}.
C13_Witness ==
    /\ result.done
    /\ arg.newOrder = <<3, 1>>
    /\ DOMAIN arg.workspaces = {1, 2, 3}
    /\ result.value.workspaces[3].order = 0
    /\ result.value.workspaces[1].order = 1
    /\ result.value.workspaces[2].order > 1

\* The step serves an importWorkspaces request.
ImportServed ==
    /\ nRequests' = nRequests + 1
    /\ response'.action = "importWorkspaces"

\* C14: export/import round trip.  An importWorkspaces of the data that
\* exportWorkspaces has just responded with succeeds and leaves workspaces
\* and nextId, as getWorkspaces reads them, as they were before the export;
\* so for the never-written store, which reads as no workspaces and nextId 1.
C14_RoundTrip ==
    [][(/\ response.action = "exportWorkspaces"
        /\ response.success
        /\ ImportServed
        /\ imported'.from = "export")
       => /\ response'.success
          /\ getWorkspaces(store') = getWorkspaces(store)
          /\ getWorkspaces(store') = response.data]_vars

\* The export of a store that holds workspaces has been imported.
C14_Witness ==
    /\ response.action = "importWorkspaces"
    /\ response.success
    /\ imported.from = "export"
    /\ DOMAIN imported.workspaces # {}
    /\ getWorkspaces(store) = [workspaces |-> imported.workspaces,
                               nextId |-> imported.nextId]

\* C15: importWorkspaces accepts a payload only if data is an object,
\* data.workspaces is an object and data.nextId is a number, and answers
\* every other payload with "Invalid import data.".
C15_ImportValidated ==
    response.action = "importWorkspaces" =>
        IF /\ imported.isObject
           /\ imported.workspacesType = "object"
           /\ imported.nextIdType = "number"
        THEN response.success
        ELSE /\ ~response.success
             /\ response.error = "Invalid import data."

\* C16: an importWorkspaces that is answered with "Invalid import data."
\* writes nothing: the store after the step is the store before it.
C16_RejectedImportWritesNothing ==
    [][(/\ ImportServed
        /\ ~response'.success
        /\ response'.error = "Invalid import data.")
       => store' = store]_vars

\* An import has been rejected while the store held workspaces other than
\* the payload's.
C16_Witness ==
    /\ response.action = "importWorkspaces"
    /\ ~response.success
    /\ response.error = "Invalid import data."
    /\ imported.isObject
    /\ DOMAIN store.workspaces # {}
    /\ store.workspaces # imported.workspaces

\* C17: after a successful importWorkspaces the stored workspaces and nextId
\* are exactly the payload's: no workspace stored before remains unless the
\* payload holds it.
C17_ImportReplaces ==
    (response.action = "importWorkspaces" /\ response.success)
        => /\ store.workspaces = imported.workspaces
           /\ store.nextId = imported.nextId

\* The one request served so far is an import with one workspace, on a store
\* that held workspace 2: workspace 2 is gone.
C17_Witness ==
    /\ response.action = "importWorkspaces"
    /\ response.success
    /\ nRequests = 1
    /\ assigned = <<1, 2>>
    /\ imported.from = "file"
    /\ DOMAIN imported.workspaces = {1}
    /\ 2 \notin DOMAIN store.workspaces

\* The requests whose handler has not called sendResponse yet.
RequestsInFlight ==
    Cardinality({i \in DOMAIN tasks : tasks[i].kind \notin {"pass", "unbind"}})

\* C18: every request the router gets, whatever its action and parameters
\* and whether the calls its handler awaits resolve or reject, is answered
\* exactly once, with an object whose success field is a boolean: a request
\* is either answered or still with its handler, what is sent has a boolean
\* success, and the n-th request leads to an n-th response.
C18_AlwaysAnswered ==
    /\ [](nRequests = nResponses + RequestsInFlight)
    /\ [](response.action # "none" => response.success \in BOOLEAN)
    /\ \A n \in 1..MaxOpRequests : (nRequests >= n) ~> (nResponses >= n)

\* An openWorkspace has been answered by the catch block after it had
\* created the window: a call it awaited after windows.create rejected.
C18_Witness ==
    /\ nResponses = nRequests
    /\ response = Failure("openWorkspace")
    /\ Len(windows) = 3

\* C19: a request whose action is not one of the nine catalogued ones is
\* answered {success: false, error: "Unknown action"} in the step that
\* delivers it; the step starts no handler and leaves the store and the
\* windows as they are.
C19_UnknownAction ==
    [][(nRequests' = nRequests + 1 /\ response'.action \in UnknownActions)
       => /\ response' = [action |-> response'.action, success |-> FALSE,
                          error |-> "Unknown action"]
          /\ UNCHANGED <<store, windows, tasks>>]_vars

\* A message without action has been answered, over a store that holds
\* workspaces.
C19_Witness ==
    /\ response = [action |-> Undefined, success |-> FALSE, error |-> "Unknown action"]
    /\ nResponses = nRequests
    /\ DOMAIN store.workspaces # {}

\* The handler that is task i looks up an id its workspaces object lacks.
LooksUpMissing(i) ==
    /\ i \in DOMAIN tasks
    /\ tasks[i].kind \in {"open", "unsave", "rename"}
    /\ tasks[i].pc = "start"
    /\ tasks[i].id \notin DOMAIN tasks[i].ws

\* The action a kind of task serves.
ActionOf(kind) ==
    CASE kind = "open" -> "openWorkspace"
      [] kind = "unsave" -> "unsaveWorkspace"
      [] kind = "rename" -> "renameWorkspace"

\* C20: openWorkspace, unsaveWorkspace and renameWorkspace for an id that is
\* not a key of the stored workspaces respond {success: false, error:
\* "Workspace not found."}, create or focus no window and leave the store as
\* it is.
C20_NotFound ==
    [][\A i \in DOMAIN tasks :
          (LooksUpMissing(i) /\ Advances(i))
          => /\ response' = [action |-> ActionOf(tasks[i].kind), success |-> FALSE,
                             error |-> "Workspace not found."]
             /\ tasks' = RemoveAt(tasks, i)
             /\ UNCHANGED <<store, windows, recreated>>]_vars

\* A lookup of an id that is not stored has been answered.
C20_Witness ==
    /\ response.action \in {"openWorkspace", "unsaveWorkspace", "renameWorkspace"}
    /\ ~response.success
    /\ response.error = "Workspace not found."
    /\ store = SavedStore

\* The handler that is task i is a saveWindow whose tabs.query found no tab.
SavesNoTabs(i) ==
    /\ i \in DOMAIN tasks
    /\ tasks[i].kind = "save"
    /\ tasks[i].pc = "start"
    /\ tasks[i].tabs = <<>>

\* C21: saveWindow on a window whose live tab list is empty responds
\* {success: false, error: "Window has no tabs."}, stores no workspace and
\* uses no id: the store is as it was.
C21_NoTabsNoSave ==
    [][\A i \in DOMAIN tasks :
          (SavesNoTabs(i) /\ Advances(i))
          => /\ response' = [action |-> "saveWindow", success |-> FALSE,
                             error |-> "Window has no tabs."]
             /\ tasks' = RemoveAt(tasks, i)
             /\ store' = store
             /\ assigned' = assigned]_vars

\* A saveWindow of a closed window has been answered, with the store as it
\* was at the start.
C21_Witness ==
    /\ response = [action |-> "saveWindow", success |-> FALSE,
                   error |-> "Window has no tabs."]
    /\ \E w \in DOMAIN windows : ~windows[w].open
    /\ store = SavedStore

\* The step is the write of the saveWindow that is task i.
SaveWrites(i) ==
    /\ i \in DOMAIN tasks
    /\ tasks[i].kind = "save"
    /\ tasks[i].pc = "write"
    /\ tasks' = RemoveAt(tasks, i)
    /\ response'.action = "saveWindow"
    /\ response'.success

\* C22: a successful saveWindow(windowId) adds exactly one record, under the
\* key nextId, with id = nextId, windowId = windowId and tabs = the URLs of
\* the window's tabs in order; the stored nextId becomes the old one + 1;
\* every record stored before is unchanged; the response carries the record.
C22_SaveAddsOne ==
    [][\A i \in DOMAIN tasks :
          SaveWrites(i)
          => LET id == getWorkspaces(store).nextId
                 t == tasks[i]
             IN  /\ id \notin DOMAIN store.workspaces
                 /\ DOMAIN store'.workspaces = DOMAIN store.workspaces \cup {id}
                 /\ store'.workspaces[id].id = id
                 /\ store'.workspaces[id].windowId = t.win
                 /\ store'.workspaces[id].tabs = TabUrls(t.tabs)
                 /\ store'.nextId = id + 1
                 /\ \A k \in DOMAIN store.workspaces :
                       store'.workspaces[k] = store.workspaces[k]
                 /\ response'.workspace = store'.workspaces[id]]_vars

\* C23: at most one stored workspace holds any given non-null windowId.
C23_OneWorkspacePerWindow ==
    \A k1, k2 \in DOMAIN store.workspaces :
        (/\ k1 # k2
         /\ store.workspaces[k1].windowId # Null)
        => store.workspaces[k1].windowId # store.workspaces[k2].windowId

\* The step is the write of the unsaveWorkspace that is task i.
UnsaveWrites(i) ==
    /\ i \in DOMAIN tasks
    /\ tasks[i].kind = "unsave"
    /\ tasks' = RemoveAt(tasks, i)
    /\ response'.action = "unsaveWorkspace"
    /\ response'.success

\* C24: a successful unsaveWorkspace(id) removes exactly the record with that
\* id: every other record and nextId are as they were, and no window is
\* closed, focused or changed.
C24_UnsaveRemovesOne ==
    [][\A i \in DOMAIN tasks :
          UnsaveWrites(i)
          => /\ DOMAIN store'.workspaces = DOMAIN store.workspaces \ {tasks[i].id}
             /\ \A k \in DOMAIN store'.workspaces :
                   store'.workspaces[k] = store.workspaces[k]
             /\ store'.nextId = store.nextId
             /\ windows' = windows]_vars

\* The step is the write of the renameWorkspace that is task i.
RenameWrites(i) ==
    /\ i \in DOMAIN tasks
    /\ tasks[i].kind = "rename"
    /\ tasks' = RemoveAt(tasks, i)
    /\ response'.action = "renameWorkspace"
    /\ response'.success

\* The step is the write of a reconciliation pass.
PassWrites ==
    \E i \in DOMAIN tasks :
        /\ tasks[i].kind = "pass"
        /\ tasks[i].pc # "clear"
        /\ Len(tasks') = Len(tasks)
        /\ tasks'[i].pc = "clear"

\* C25: a successful renameWorkspace(id, s) sets customTitle and title of
\* workspace id to s, for the empty string too, and leaves its other fields,
\* every other workspace and nextId as they were; and no reconciliation pass
\* changes the title of a workspace whose customTitle is set.
C25_RenameSetsTitle ==
    [][/\ \A i \in DOMAIN tasks :
             RenameWrites(i)
             => /\ DOMAIN store'.workspaces = DOMAIN store.workspaces
                /\ \A k \in DOMAIN store.workspaces :
                      store'.workspaces[k] =
                          IF k = tasks[i].id
                          THEN [store.workspaces[k] EXCEPT
                                   !.customTitle = tasks[i].title,
                                   !.title = tasks[i].title]
                          ELSE store.workspaces[k]
                /\ store'.nextId = store.nextId
       /\ PassWrites
          => \A k \in DOMAIN store.workspaces :
                store.workspaces[k].customTitle # Undefined
                => /\ k \in DOMAIN store'.workspaces
                   /\ store'.workspaces[k].title = store.workspaces[k].title]_vars

\* C26: the unsaved list of a getState response holds exactly the open
\* windows that no workspace of its saved list is bound to, each once, with
\* the time of the window's last focus, 0 for a window never focused, and in
\* descending order of that time.
C26_UnsavedList ==
    (response.action = "getState" /\ response.success)
        => LET u == response.unsaved
               saved == response.saved
           IN  /\ {u[j].windowId : j \in DOMAIN u} =
                      {w \in DOMAIN windows :
                          /\ windows[w].open
                          /\ \A k \in DOMAIN saved : saved[k].windowId # w}
               /\ \A i, j \in DOMAIN u : i # j => u[i].windowId # u[j].windowId
               /\ \A j \in DOMAIN u :
                      u[j].lastActive =
                          IF u[j].windowId \in DOMAIN windowLastActive
                          THEN windowLastActive[u[j].windowId]
                          ELSE 0
               /\ \A i, j \in DOMAIN u : i < j => u[i].lastActive >= u[j].lastActive

\* A getState response with a saved window left out and two unsaved windows:
\* the one focused last first, then one that was never focused.
C26_Witness ==
    /\ response.action = "getState"
    /\ response.success
    /\ DOMAIN response.saved # {}
    /\ Len(response.unsaved) = 2
    /\ response.unsaved[1].windowId > response.unsaved[2].windowId
    /\ response.unsaved[2].lastActive = 0

---------------------------------------------------------------------------
(* Reconciling a window without tabs. *)

\* The pass i takes its next turn of the loop, having been given no tab for
\* the window it queried: the window has no tab or tabs.query rejected.
PassSkips(i) ==
    /\ i \in DOMAIN tasks
    /\ tasks[i].kind = "pass"
    /\ tasks[i].pc = "query"
    /\ tasks[i].tabs = <<>>
    /\ Len(tasks') = Len(tasks)
    /\ tasks'[i].kind = "pass"
    /\ tasks'[i].idx = tasks[i].idx + 1 \/ tasks'[i].pc = "clear"

\* C27: reconciling a window whose live tab list is empty, or whose tab query
\* failed, changes nothing: the workspaces object of the pass is after the
\* turn what it was before, no update of it is left pending, and a pass that
\* ends with that turn writes the object as it was; and no write of any step
\* leaves a workspace that had tabs without any.
C27_EmptyWindowSkipped ==
    [][/\ \A i \in DOMAIN tasks :
             PassSkips(i) =>
                /\ tasks'[i].ws = tasks[i].ws
                /\ tasks'[i].applied = tasks[i].applied
                /\ tasks'[i].deferred = tasks[i].deferred
                /\ tasks'[i].pc = "clear" =>
                       getWorkspaces(store').workspaces = tasks[i].ws
        /\ \A k \in DOMAIN getWorkspaces(store).workspaces
                     \cap DOMAIN getWorkspaces(store').workspaces :
             getWorkspaces(store).workspaces[k].tabs # <<>> =>
                getWorkspaces(store').workspaces[k].tabs # <<>>]_vars

\* Window 1 has been closed, a pass has queried it, skipped it and written,
\* and the workspace saved from it has the tabs of the save.
C27_Witness ==
    /\ ~windows[1].open
    /\ \E i \in DOMAIN tasks :
          /\ tasks[i].kind = "pass"
          /\ tasks[i].pc = "clear"
          /\ tasks[i].win = 1
          /\ tasks[i].tabs = <<>>
    /\ 1 \in DOMAIN getWorkspaces(store).workspaces
    /\ getWorkspaces(store).workspaces[1].tabs = TabUrls(ContentA.tabs)

---------------------------------------------------------------------------
(* Reconciling a window with tabs. *)

\* C28: reconciling window w with live tabs gives every workspace bound to w
\* the live URLs in order, also when several are bound to w, leaves every
\* workspace bound elsewhere as it was, changes no id, windowId, order or
\* customTitle, and adds or removes no workspace.
C28_ReconcileOverwritesBound ==
    [][result' # result =>
          /\ DOMAIN result'.value = DOMAIN Reconciled
          /\ \A k \in DOMAIN Reconciled :
                /\ Reconciled[k].windowId = arg.winId =>
                       result'.value[k].tabs = TabUrls(arg.tabs)
                /\ Reconciled[k].windowId # arg.winId =>
                       result'.value[k] = Reconciled[k]
                /\ result'.value[k].id = Reconciled[k].id
                /\ result'.value[k].windowId = Reconciled[k].windowId
                /\ result'.value[k].order = Reconciled[k].order
                /\ result'.value[k].customTitle = Reconciled[k].customTitle]_vars

\* Workspaces 1 and 2 share the window that was reconciled and have its
\* URLs, which they did not have before; workspace 3 is bound to another
\* window.
C28_Witness ==
    /\ result.done
    /\ arg.workspaces[1].windowId = arg.winId
    /\ arg.workspaces[2].windowId = arg.winId
    /\ arg.workspaces[3].windowId \notin {arg.winId, Null}
    /\ arg.workspaces[1].tabs # TabUrls(arg.tabs)
    /\ result.value[1].tabs = TabUrls(arg.tabs)
    /\ result.value[2].tabs = TabUrls(arg.tabs)

\* C29: reconciling the same window a second time with the same live tabs and
\* groups leaves the workspaces as the first pass left them, and no pass
\* changes the title of a workspace whose customTitle is set.
C29_ReconcileIdempotent ==
    [][result' # result =>
          /\ result.done => result'.value = result.value
          /\ \A k \in DOMAIN Reconciled :
                Reconciled[k].customTitle # Undefined =>
                   result'.value[k].title = Reconciled[k].title]_vars

\* The window has been reconciled twice; the first pass changed the title
\* of workspace 1, which was never renamed, and workspace 2, bound to the
\* same window, was renamed to the empty string.
C29_Witness ==
    /\ result.done
    /\ result.passes = 2
    /\ arg.workspaces[1].windowId = arg.winId
    /\ arg.workspaces[1].customTitle = Undefined
    /\ result.value[1].title # arg.workspaces[1].title
    /\ arg.workspaces[2].windowId = arg.winId
    /\ arg.workspaces[2].customTitle = ""
    /\ result.value[2].tabs # arg.workspaces[2].tabs

---------------------------------------------------------------------------
(* The scheduler and what is not a window id. *)

\* C30: scheduleWorkspaceUpdate called with an absent window id, with one
\* that is not a number or with a negative one does nothing: the pending set
\* is as it was, the timer handle names the timer it named, no timer is
\* cancelled and none is started.
C30_InvalidIdIgnored ==
    [][~result.done /\ result'.done =>
          /\ pendingUpdates' = pendingUpdates
          /\ updateTimer' = updateTimer
          /\ timers' = timers
          /\ nextTimerId' = nextTimerId]_vars

\* The call was made with undefined while a timer was running for a window
\* that was pending; the timer is still running and the window still pending.
C30_Witness ==
    /\ result.done
    /\ arg.type = "undefined"
    /\ result.value.updateTimer # Null
    /\ result.value.updateTimer \in result.value.timers
    /\ result.value.pendingUpdates # <<>>
    /\ Scheduler = result.value

---------------------------------------------------------------------------
(* The write of a pass. *)

\* The step is the end of the pass i: it returns from processPendingUpdates.
PassEnds(i) ==
    /\ i \in DOMAIN tasks
    /\ tasks[i].kind = "pass"
    /\ Len(tasks') = Len(tasks) - 1
    /\ pendingUpdates' = <<>>
    /\ updateTimer' = Null
    /\ tasks' = [j \in DOMAIN RemoveAt(tasks, i) |->
                    [RemoveAt(tasks, i)[j] EXCEPT !.idx = tasks'[j].idx]]

---------------------------------------------------------------------------
(* Starvation of the reconciliation. *)

\* No pass is in flight and no timer is outstanding but the one the handle
\* names, if any: no pass has been started since the last one ended.
Quiet == ~PassInFlight /\ timers \subseteq {updateTimer}

\* C32: a notification that arrives before the timer has fired cancels that
\* timer and sets a new one, without a pass having run, and leaves the
\* scheduler in a state where the next notification does the same: as long
\* as notifications keep arriving before the timer fires no pass starts, so
\* the delay of the reconciliation has no bound.
C32_NotificationsStarvePass ==
    [][Quiet /\ nEvents' = nEvents + 1 =>
          /\ Quiet'
          /\ updateTimer' \notin timers
          /\ timers' = {updateTimer'}
          /\ store' = store]_vars

\* As many notifications as the bound allows have arrived, each before the
\* timer of the one before fired: every timer but the last was cancelled, no
\* pass has run and the store is as it was.
C32_Witness ==
    /\ nEvents = MaxPassEvents
    /\ Quiet
    /\ updateTimer = MaxPassEvents
    /\ timers = {updateTimer}
    /\ nextTimerId = MaxPassEvents + 1
    /\ pendingUpdates # <<>>
    /\ store = SavedStore

---------------------------------------------------------------------------
(* The recreation of a window. *)

\* The openWorkspace i has created its window and is in or after the loop
\* that queries its tabs.
Recreating(i) ==
    /\ i \in DOMAIN tasks
    /\ tasks[i].kind = "open"
    /\ tasks[i].pc \in {"replay", "persist"}

\* C33: the recreation path of openWorkspace ends: the tabs of the new window
\* are queried at most PollLimit times, the query number PollLimit ends the
\* loop however many tabs it found, and the operation then writes the new
\* windowId and answers success with it; every openWorkspace in flight is
\* answered.
C33_RecreationTerminates ==
    /\ [](\A i \in DOMAIN tasks : Recreating(i) => tasks[i].idx <= PollLimit)
    /\ [][\A i \in DOMAIN tasks :
             /\ (Recreating(i) /\ tasks[i].pc = "replay"
                    /\ tasks[i].idx = PollLimit - 1
                    /\ Len(tasks') = Len(tasks) /\ tasks'[i] # tasks[i])
                => tasks'[i].pc = "persist"
             /\ (Recreating(i) /\ tasks[i].pc = "persist"
                    /\ tasks' = RemoveAt(tasks, i))
                => /\ response'.action = "openWorkspace"
                   /\ response'.success
                   /\ response'.windowId = tasks[i].win
                   /\ store'.workspaces[tasks[i].id].windowId = tasks[i].win]_vars
    /\ (tasks # <<>>) ~> (tasks = <<>> /\ response.action = "openWorkspace")

\* An openWorkspace has answered success for a window of three tabs of
\* which the last of its PollLimit queries found two, and its group ranges
\* were replayed on those: the store binds the workspace to the window.
C33_Witness ==
    /\ response.action = "openWorkspace"
    /\ response.success
    /\ response.message = "New window opened."
    /\ tabGroups
    /\ \E r \in recreated :
          /\ response.windowId = r.new
          /\ store.workspaces[r.id].windowId = r.new
          /\ Len(windows[r.new].tabs) = 3
          /\ windows[r.new].tabs[2].groupId = NoGroup
          /\ windows[r.new].tabs[3].groupId = NoGroup

\* The range g has been replayed in the window win: the tabs with index in
\* [start, end] are in one group, which has the title, the color and the
\* collapsed flag of the range.
RangeReplayed(win, g) ==
    \E group \in Range(win.groups) :
        /\ group.title = g.title
        /\ group.color = g.color
        /\ group.collapsed = g.collapsed
        /\ \A j \in DOMAIN win.tabs :
              (j - 1 >= g.start /\ j - 1 <= g.end) => win.tabs[j].groupId = group.id
        /\ \E j \in DOMAIN win.tabs : j - 1 >= g.start /\ j - 1 <= g.end

\* C34: when openWorkspace has recreated a window, in a browser with tab
\* groups, and its last query found every tab, every stored group range of
\* the workspace has been replayed in the new window, a range of a single
\* tab too.
C34_RangesReplayed ==
    \A i \in DOMAIN tasks :
        (/\ Recreating(i)
         /\ tasks[i].pc = "persist"
         /\ tabGroups
         /\ windows[tasks[i].win].open
         /\ Len(tasks[i].tabs) = Len(windows[tasks[i].win].tabs))
        => \A g \in Range(tasks[i].ws[tasks[i].id].groupRanges) :
              RangeReplayed(windows[tasks[i].win], g)

---------------------------------------------------------------------------
(* The store adapter when storage rejects. *)

\* The handlers that start with getWorkspaces.
ReadsFirst == {"unsave", "rename", "open", "order"}

\* C35: the store adapter never throws.  A handler that starts with
\* getWorkspaces holds the stored workspaces and nextId (1 if none is
\* stored), or the empty object and 1 when the read was rejected; and
\* unsaveWorkspace and renameWorkspace, which call nothing but the adapter,
\* are never answered by their catch block: when they answer success the store
\* holds what they wrote or, the write having been rejected, is as it was.
C35_StoreNeverThrows ==
    [][/\ (Len(tasks') = Len(tasks) + 1 /\ tasks'[Len(tasks')].kind \in ReadsFirst)
          => LET t == tasks'[Len(tasks')]
             IN  \/ /\ t.ws = store.workspaces
                    /\ t.nextId = IF store.nextId = Null THEN 1 ELSE store.nextId
                 \/ /\ t.ws = <<>>
                    /\ t.nextId = 1
       /\ \A i \in DOMAIN tasks :
             (tasks[i].kind \in {"unsave", "rename"} /\ tasks' = RemoveAt(tasks, i))
             => /\ response'.success \/ response'.error = "Workspace not found."
                /\ response'.success =>
                      \/ store' = store
                      \/ /\ tasks[i].kind = "unsave"
                         /\ store' = setWorkspaces(Without(tasks[i].ws, tasks[i].id),
                                                   tasks[i].nextId)
                      \/ /\ tasks[i].kind = "rename"
                         /\ store'.nextId = tasks[i].nextId
                         /\ store'.workspaces[tasks[i].id].title = tasks[i].title
                         /\ store'.workspaces[tasks[i].id].customTitle = tasks[i].title]_vars

\* renameWorkspace has answered success, its write was rejected and the
\* stored workspace has the title it had.
C35_Witness ==
    /\ response.action = "renameWorkspace"
    /\ response.success
    /\ store = SavedStore
    /\ "storage.set" \in failing

\* C36: a store read that fails loses no workspace.  With the requests served
\* one at a time, no step but the answer to an unsaveWorkspace or to an
\* import removes a stored workspace, and no saveWindow answers with an id
\* that a stored workspace has.
C36_FailedReadLosesNothing ==
    [][/\ response'.action \notin {"unsaveWorkspace", "importWorkspaces"}
          => DOMAIN store.workspaces \subseteq DOMAIN store'.workspaces
       /\ (response'.action = "saveWindow" /\ response'.success)
          => response'.workspace.id \notin DOMAIN store.workspaces]_vars

---------------------------------------------------------------------------
(* Overlapping saveWindow requests. *)

\* C37: saveWindow requests, overlapping or not, are answered with distinct
\* workspace ids, and when two of them have been answered the records of both
\* are in the store.
C37_OverlappingSavesBothKept ==
    /\ \A a, b \in DOMAIN assigned : a # b => assigned[a] # assigned[b]
    /\ (tasks = <<>> /\ Len(assigned) = 4)
          => {assigned[3], assigned[4]} \subseteq DOMAIN store.workspaces

---------------------------------------------------------------------------
(* What a failed recreation leaves. *)

\* C38: when openWorkspace has created a window for a workspace and has
\* ended, the stored workspace is bound to that window, whatever call
\* rejected after the creation.
C38_CreatedWindowPersisted ==
    tasks = <<>> =>
        \A r \in recreated :
            /\ r.id \in DOMAIN store.workspaces
            /\ store.workspaces[r.id].windowId = r.new

---------------------------------------------------------------------------
(* Passes in flight. *)

\* C39: at most one reconciliation pass is in flight: no pass starts between
\* the store read and the return of another.
C39_OnePassInFlight ==
    Cardinality({i \in DOMAIN tasks : tasks[i].kind = "pass"}) <= 1

---------------------------------------------------------------------------
(* The order values after a reorder. *)

\* C40: after updateOrder(L), for every list L, with ids that are not
\* stored, with an id twice or with some ids missing, every stored workspace
\* has an order value and no two have the same.
C40_OrdersDistinct ==
    result.done =>
        LET ws == result.value.workspaces
        IN  /\ \A k \in DOMAIN ws : ws[k].order # NoOrder /\ ws[k].order >= 0
            /\ \A a, b \in DOMAIN ws : a # b => ws[a].order # ws[b].order

\* updateOrder([3, 3]) has been served on the workspaces {1, 2}: the list
\* names an id twice that is not stored, and names neither stored workspace.
C40_Witness ==
    /\ result.done
    /\ arg.newOrder = <<3, 3>>
    /\ DOMAIN arg.workspaces = {1, 2}
    /\ result.value.workspaces[1].order = 2
    /\ result.value.workspaces[2].order = 3

=============================================================================
